---- MODULE Spec2Model ----
(***************************************************************************)
(* Topology aggregation of bim2sim: ports and their connections, the       *)
(* connection graph, the aggregation rules (PipeStrand, UnderfloorHeating, *)
(* ParallelPump, AggregatedPipeFitting) and the reduction driver           *)
(* Reduce.run.                                                             *)
(*                                                                         *)
(* Sources: MainLib/bim2sim/kernel/aggregation.py (rules),                 *)
(* MainLib/bim2sim/task/hvac/hvac.py (ConnectElements, MakeGraph, Reduce). *)
(* kernel/element.py (Port) and kernel/hvac/hvac_graph.py (HvacGraph) are  *)
(* not part of the source tree; Port.connect, Port.disconnect, the graph   *)
(* constructor, get_type_chains, get_parallels, get_connections_between    *)
(* and merge follow the specification text (sections 4.1, 4.3, 4.5).       *)
(***************************************************************************)
EXTENDS Integers, Sequences, FiniteSets, TLC

(***************************************************************************)
(* The plant.  Components are numbered; component c has type CompType[c]   *)
(* and CompPorts[c] ports.  A port is the pair <<owner, index>>.           *)
(*   1 boiler (2 ports)      2,3 pipes          4 fitting (4 ports)        *)
(*   5,6 pumps               7 fitting (4 ports) 8 pipe                    *)
(*   9,10 fittings (3 ports) 11,12 pumps                                   *)
(*   13 distributor (3 ports) 14,15 pipes                                  *)
(***************************************************************************)
CompType == << "IfcBoiler", "IfcPipeSegment", "IfcPipeSegment", "IfcPipeFitting",
               "IfcPump", "IfcPump", "IfcPipeFitting", "IfcPipeSegment",
               "IfcPipeFitting", "IfcPipeFitting", "IfcPump", "IfcPump",
               "IfcDistributionChamberElement", "IfcPipeSegment", "IfcPipeSegment" >>

CompPorts == << 2, 2, 2, 4, 2, 2, 4, 2, 3, 3, 2, 2, 3, 2, 2 >>

Comps == 1 .. Len(CompType)

\* Cap on the number of aggregation objects created in one run.
MaxAgg == 9

AggIds == (Len(CompType) + 1) .. (Len(CompType) + MaxAgg)

NoPort == << 0, 0 >>

NoAgg == 0

ElemPorts == UNION { { << c, i >> : i \in 1 .. CompPorts[c] } : c \in Comps }

\* port.parent
parent(p) == p[1]

\* The port pairs the ingestion layer tries to connect (by relation or by
\* position).  Some pairs compete for a port, one joins a component to itself.
CandidateLinks ==
  { << <<1, 2>>, <<2, 1>> >>,   \* boiler - pipe 2
    << <<2, 2>>, <<3, 1>> >>,   \* pipe 2 - pipe 3
    << <<3, 2>>, <<4, 1>> >>,   \* pipe 3 - fitting 4
    << <<4, 3>>, <<6, 1>> >>,   \* fitting 4 - pump 6
    << <<6, 2>>, <<7, 2>> >>,   \* pump 6 - fitting 7
    << <<7, 3>>, <<8, 1>> >>,   \* fitting 7 - pipe 8
    << <<8, 2>>, <<1, 1>> >>,   \* pipe 8 - boiler
    << <<3, 2>>, <<1, 1>> >>,   \* pipe 3 - boiler (strand from boiler to boiler)
    << <<4, 4>>, <<1, 1>> >>,   \* fitting 4 - boiler (third outer port)
    << <<4, 3>>, <<2, 1>> >>,   \* fitting 4 - pipe 2 (pipes in a pump branch)
    << <<3, 2>>, <<6, 1>> >>,   \* pipe 3 - pump 6
    << <<9, 3>>, <<8, 2>> >>,   \* fitting 9 - pipe 8
    << <<10, 3>>, <<1, 2>> >>,  \* fitting 10 - boiler
    << <<4, 4>>, <<8, 2>> >>,   \* fitting 4 - pipe 8 (two strands at one fitting)
    << <<2, 1>>, <<2, 2>> >> }  \* both ports of pipe 2

\* The port pairs already connected when the model starts: pump 5 between
\* the fittings 4 and 7, pumps 11 and 12 in parallel between the fittings 9
\* and 10.
ConnectedLinks ==
  { << <<4, 2>>, <<5, 1>> >>, << <<5, 2>>, <<7, 1>> >>,
    << <<9, 1>>, <<11, 1>> >>, << <<11, 2>>, <<10, 1>> >>,
    << <<9, 2>>, <<12, 1>> >>, << <<12, 2>>, <<10, 2>> >> }

VARIABLES
  connection,   \* port.connection of every component port (NoPort: None)
  ports,        \* element.ports: the port list of every component
  rated_power,  \* rated_power attribute of the pumps
  err,          \* exception raised by the last call ("none" if it returned)
  pc,           \* position of the pipeline
  gnodes,       \* graph: the components in the node set
  gedges,       \* graph: the edges, each the set of the two ports it joins
  aggregation,  \* element.aggregation back-reference (NoAgg: None)
  aggs,         \* the aggregation objects created so far
  nAgg,         \* number of aggregation objects created so far
  rule,         \* Reduce.run: index of the current rule in Aggregations
  matches,      \* Reduce.run: matches returned by find_matches of the rule
  mi,           \* Reduce.run: index of the next match
  cnt,          \* Reduce.run: the counter i of the current rule
  statistics,   \* Reduce.run: statistics[name], -1 while not yet set
  merged,       \* the aggregates whose replacement mapping was merged
  seen,         \* the calls of find_matches: class and node set, in order
  last,         \* the last call: its arguments and the state before it
  order,        \* the iteration order of the sets of objects in this run
  items,        \* the elements handed to _calc_avg: their attribute values
  result,       \* the dict returned by _calc_avg
  first,        \* the outcome of the first of two runs of the reduction
  geometry,     \* the chains handed to check_conditions: what their positions come to
  cache,        \* the attributes of an aggregate: cached values and calls made
  templates,    \* TemplateFinder.templates
  position      \* port.position of the ports handed to connections_by_position

vars == << connection, ports, rated_power, err, pc, gnodes, gedges, aggregation,
           aggs, nAgg, rule, matches, mi, cnt, statistics, merged, seen, last,
           order, items, result, first, geometry, cache, templates, position >>

(***************************************************************************)
(* Port.connect / Port.disconnect (specification 4.1)                      *)
(***************************************************************************)
\* connect(other) raises iff one of the two ports has an active connection
\* to a different port, or both ports belong to the same component.
\* (variant: the check of the owning component is missing)
ConnectRaisesBusyOnly(conn, p, q) ==
  \/ conn[p] # NoPort /\ conn[p] # q
  \/ conn[q] # NoPort /\ conn[q] # p

ConnectRaises(conn, p, q) ==
  \/ conn[p] # NoPort /\ conn[p] # q
  \/ conn[q] # NoPort /\ conn[q] # p
  \/ parent(p) = parent(q)

\* (variant: only the calling port records the connection)
ConnectResultOneSided(conn, p, q) ==
  IF ConnectRaises(conn, p, q) THEN conn
  ELSE [conn EXCEPT ![p] = q]

ConnectResult(conn, p, q) ==
  IF ConnectRaises(conn, p, q) THEN conn
  ELSE [conn EXCEPT ![p] = q, ![q] = p]

\* (variant: only the calling port drops the connection)
DisconnectResultOneSided(conn, p) == [conn EXCEPT ![p] = NoPort]

DisconnectResult(conn, p) ==
  IF conn[p] = NoPort THEN conn
  ELSE [conn EXCEPT ![p] = NoPort, ![conn[p]] = NoPort]

(***************************************************************************)
(* Sequences and sets                                                      *)
(***************************************************************************)
Range(s) == { s[i] : i \in DOMAIN s }

Min(S) == CHOOSE x \in S : \A y \in S : x <= y

Max(S) == CHOOSE x \in S : \A y \in S : x >= y

Abs(x) == IF x < 0 THEN -x ELSE x

\* a set of numbers as the ascending list (the iteration order of node sets)
RECURSIVE SortedSeq(_)
SortedSeq(S) ==
  IF S = {} THEN << >> ELSE << Min(S) >> \o SortedSeq(S \ { Min(S) })

\* a set of disjoint node sets as a list, ordered by smallest member
RECURSIVE SortBlocks(_)
SortBlocks(SS) ==
  IF SS = {} THEN << >>
  ELSE LET b == CHOOSE x \in SS : \A y \in SS : Min(x) <= Min(y)
       IN << b >> \o SortBlocks(SS \ { b })

Reverse(s) == [i \in 1 .. Len(s) |-> s[Len(s) + 1 - i]]

\* The iteration order of a Python set of objects follows their hashes (their
\* addresses); it is fixed within a run and may differ between runs.
Orders == { "asc", "desc" }

\* for x in set(...)
IterSet(S) == IF order = "asc" THEN SortedSeq(S) ELSE Reverse(SortedSeq(S))

(***************************************************************************)
(* Graph primitives (specification 3 and 4.3).  A graph is a node set N    *)
(* and an edge set E; an edge is the set of the two ports it joins.        *)
(***************************************************************************)
EdgesAt(E, n) == { e \in E : \E p \in e : parent(p) = n }

Degree(E, n) == Cardinality(EdgesAt(E, n))

Neighbours(E, n) == { parent(p) : p \in UNION EdgesAt(E, n) } \ { n }

\* edges of the subgraph induced by the node set M: graph.subgraph(M)
SubEdges(E, M) == { e \in E : \A p \in e : parent(p) \in M }

RECURSIVE Reach(_, _, _)
Reach(E, S, R) ==
  LET nxt == { m \in S \ R : \E n \in R : m \in Neighbours(E, n) }
  IN IF nxt = {} THEN R ELSE Reach(E, S, R \cup nxt)

\* connected components of the subgraph induced by S
Components(E, S) == { Reach(E, S, { n }) : n \in S }

\* type tag of a node: the ifc type of a component, the class of an aggregate
NodeType(A, n) == IF n \in Comps THEN CompType[n] ELSE A[n].cls

\* HvacGraph(instances): one node per element, one edge per connection
GraphNodes == Comps

GraphEdges(conn) == { { p, conn[p] } : p \in { q \in ElemPorts : conn[q] # NoPort } }

\* get_type_chains: the maximal simple paths of nodes of the given types
\* whose nodes have at most two connections in the full graph
GetTypeChains(N, E, A, types, include_singles) ==
  LET cand == { n \in N : NodeType(A, n) \in types /\ Degree(E, n) <= 2 }
      sub == SubEdges(E, cand)
      ends(S) == { n \in S : Degree(SubEdges(E, S), n) <= 1 }
      isChain(S) == IF Cardinality(S) = 1 THEN include_singles
                    ELSE Cardinality(ends(S)) = 2
  IN SortBlocks({ S \in Components(sub, cand) : isChain(S) })

\* get_parallels: for two boundary nodes of inert type, the branches between
\* them (runs of wanted / inert nodes with two connections, at least one
\* wanted) whose wanted nodes agree on rated_power within the threshold
GetParallels(N, E, A, rp, wanted, inert, threshold) ==
  LET ok(n) == NodeType(A, n) \in wanted \cup inert
      wantedIn(S) == { n \in S : NodeType(A, n) \in wanted }
      bounds(S) == UNION { Neighbours(E, n) : n \in S } \ S
      runs(J) == LET inner == { n \in N \ J : ok(n) /\ Degree(E, n) = 2 }
                 IN Components(SubEdges(E, inner), inner)
      branches(J) == { S \in runs(J) : bounds(S) = J /\ wantedIn(S) # {} }
      agree(S, T) == \A m \in wantedIn(S), n \in wantedIn(T) :
                       Abs(rp[m] - rp[n]) <= threshold
      group(J, S) == { T \in branches(J) : agree(S, T) }
      pairs == { J \in SUBSET { n \in N : NodeType(A, n) \in inert } :
                   Cardinality(J) = 2 }
      matchesOf(J) == { J \cup UNION group(J, S) :
                          S \in { T \in branches(J) :
                                    /\ T \in group(J, T)
                                    /\ Cardinality(group(J, T)) >= 2 } }
  IN SortBlocks(UNION { matchesOf(J) : J \in pairs })

\* get_connections_between: clusters of wanted nodes that are adjacent
\* directly or through inert nodes
GetConnectionsBetween(N, E, A, wanted, inert) ==
  LET cand == { n \in N : NodeType(A, n) \in wanted \cup inert }
      wantedIn(S) == { n \in S : NodeType(A, n) \in wanted }
  IN SortBlocks({ S \in Components(SubEdges(E, cand), cand) :
                    Cardinality(wantedIn(S)) >= 2 })

(***************************************************************************)
(* Aggregation objects (kernel/aggregation.py).  The objects live in a     *)
(* heap h = [agn, aggs, n]: agn is element.aggregation, aggs[a] the object *)
(* with id a, n the number of objects created.  AggregationPort k of the   *)
(* aggregate a is the port <<a, k>>; aggs[a].originals[k] is its           *)
(* originals list.                                                         *)
(***************************************************************************)
NoMeta == [length |-> 0, diameter |-> 0, x_spacing |-> 0, y_spacing |-> 0,
           heating_area |-> 0]

NoObject == [cls |-> "none", elements |-> {}, originals |-> << >>, attrs |-> NoMeta]

NewId(h) == Len(CompType) + h.n + 1

\* element.ports / aggregate.ports
PortsOf(h, n) ==
  IF n \in Comps THEN ports[n]
  ELSE [k \in 1 .. Len(h.aggs[n].originals) |-> << n, k >>]

\* port.connection; an AggregationPort is created without a connection
Conn(p) == IF p \in ElemPorts THEN connection[p] ELSE NoPort

\* node.__class__.__name__
ClassName(h, n) ==
  IF n \in Comps
  THEN (IF CompType[n] = "IfcPump" THEN "Pump" ELSE CompType[n])
  ELSE h.aggs[n].cls

\* the ports of the elements of the list, in order
RECURSIVE FlatPorts(_, _)
FlatPorts(h, es) ==
  IF es = << >> THEN << >> ELSE PortsOf(h, Head(es)) \o FlatPorts(h, Tail(es))

\* self.ports.append(AggregationPort(port, parent=self)) for port in the list
AppendPorts(h, a, ps) ==
  [h EXCEPT !.aggs[a].originals = @ \o [i \in 1 .. Len(ps) |-> << ps[i] >>]]

\* self.ports.append(AggregationPort(originals, parent=self)), originals a list
AppendFusedPort(h, a, originals) ==
  [h EXCEPT !.aggs[a].originals = Append(@, originals)]

\* Aggregation.__init__
AggregationInit(h, cls, M) ==
  [ agn |-> [n \in DOMAIN h.agn |-> IF n \in M THEN NewId(h) ELSE h.agn[n]],
    aggs |-> [h.aggs EXCEPT ![NewId(h)] =
                [cls |-> cls, elements |-> M, originals |-> << >>, attrs |-> NoMeta]],
    n |-> h.n + 1 ]

\* Aggregation.get_edge_ports_of_strait
GetEdgePortsOfStrait(h, E, M) ==
  LET sub == SubEdges(E, M)
      edge_elements == SelectSeq(SortedSeq(M), LAMBDA v : Degree(sub, v) = 1)
      IsEdge(p) == Conn(p) # NoPort /\ parent(Conn(p)) \notin M
      edge_ports == SelectSeq(FlatPorts(h, edge_elements), IsEdge)
  IN IF Len(edge_elements) # 2 THEN [raised |-> TRUE, ports |-> << >>]
     ELSE IF Len(edge_ports) > 2 THEN [raised |-> TRUE, ports |-> << >>]
     ELSE [raised |-> FALSE, ports |-> edge_ports]

\* PipeStrand.__init__ (cls: the class being instantiated)
PipeStrandInit(h, cls, E, M, meta) ==
  LET a == NewId(h)
      h1 == AggregationInit(h, cls, M)
      h2 == [h1 EXCEPT !.aggs[a].attrs.length = meta.length,
                       !.aggs[a].attrs.diameter = meta.diameter]
      ep == GetEdgePortsOfStrait(h2, E, M)
  IN IF ep.raised THEN [raised |-> TRUE, h |-> h2, id |-> a]
     ELSE [raised |-> FALSE, h |-> AppendPorts(h2, a, ep.ports), id |-> a]

\* UnderfloorHeating.__init__
UnderfloorHeatingInit(h, E, M, meta) ==
  LET r == PipeStrandInit(h, "UnderfloorHeating", E, M, meta)
      a == r.id
      ep == GetEdgePortsOfStrait(r.h, E, M)
      h1 == AppendPorts(r.h, a, ep.ports)
      h2 == [h1 EXCEPT !.aggs[a].attrs.x_spacing = meta.x_spacing,
                       !.aggs[a].attrs.y_spacing =
                          IF meta.y_spacing # 0 THEN meta.x_spacing ELSE 0,
                       !.aggs[a].attrs.heating_area = meta.heating_area]
  IN IF r.raised \/ ep.raised THEN [raised |-> TRUE, h |-> r.h, id |-> a]
     ELSE [raised |-> FALSE, h |-> h2, id |-> a]

\* AggregatedPipeFitting.get_edge_ports
FittingEdgePorts(h, M) ==
  LET edge_elements == SelectSeq(SortedSeq(M), LAMBDA n : Len(PortsOf(h, n)) > 2)
      IsEdge(p) == Conn(p) # NoPort /\ parent(Conn(p)) \notin M
      edge_ports == SelectSeq(FlatPorts(h, edge_elements), IsEdge)
  IN IF Len(edge_ports) < 2 THEN [raised |-> TRUE, ports |-> << >>]
     ELSE [raised |-> FALSE, ports |-> edge_ports]

\* AggregatedPipeFitting.__init__
AggregatedPipeFittingInit(h, M, aggr_ports) ==
  LET a == NewId(h)
      h1 == AggregationInit(h, "AggregatedPipeFitting", M)
      ep == FittingEdgePorts(h1, M)
      single == IF aggr_ports # << >>
                THEN SelectSeq(ep.ports, LAMBDA p : p \notin Range(aggr_ports))
                ELSE ep.ports
      h2 == AppendPorts(h1, a, single)
      h3 == IF aggr_ports # << >> THEN AppendFusedPort(h2, a, aggr_ports) ELSE h2
  IN IF ep.raised THEN [raised |-> TRUE, h |-> h1, id |-> a]
     ELSE [raised |-> FALSE, h |-> h3, id |-> a]

\* AggregatedPipeFitting.find_matches
FittingFindMatches(N, E, A) ==
  GetConnectionsBetween(N, E, A, { "IfcPipeFitting" }, { "PipeStand", "IfcPipeSegment" })

\* the loop of ParallelPump.merge_additional_junctions over the junctions
\* found; an exception of a constructor is not caught
RECURSIVE MergeJunctions(_, _)
MergeJunctions(h, junctions) ==
  IF junctions = << >> THEN [raised |-> FALSE, h |-> h]
  ELSE LET r == AggregatedPipeFittingInit(h, Head(junctions), << >>)
       IN IF r.raised THEN [raised |-> TRUE, h |-> r.h]
          ELSE MergeJunctions(r.h, Tail(junctions))

\* ParallelPump.merge_additional_junctions (graph: the match)
MergeAdditionalJunctions(h, E, M) ==
  MergeJunctions(h, FittingFindMatches(M, SubEdges(E, M), h.aggs))

\* (variant: only the first junction of the iteration gets its aggregate)
WrapJunctionsFirstOnly(h, parents, inner) ==
  IF parents = << >> THEN [raised |-> FALSE, h |-> h, ports |-> << >>]
  ELSE LET j == Head(parents)
           aggr_ports == SelectSeq(inner, LAMBDA p : parent(p) = j)
           wrapped == /\ h.agn[j] # NoAgg
                      /\ h.aggs[h.agn[j]].cls = "AggregatedPipeFitting"
           r == AggregatedPipeFittingInit(h, { j }, aggr_ports)
       IN IF wrapped THEN [raised |-> FALSE, h |-> h, ports |-> << >>]
          ELSE IF r.raised THEN [raised |-> TRUE, h |-> r.h, ports |-> << >>]
          ELSE [raised |-> FALSE, h |-> r.h, ports |-> << >>]

\* the loop over parents at the end of ParallelPump.get_edge_ports: a junction
\* not yet in an AggregatedPipeFitting gets one with its inner ports fused
RECURSIVE WrapJunctions(_, _, _)
WrapJunctions(h, parents, inner) ==
  IF parents = << >> THEN [raised |-> FALSE, h |-> h, ports |-> << >>]
  ELSE LET j == Head(parents)
           aggr_ports == SelectSeq(inner, LAMBDA p : parent(p) = j)
           wrapped == /\ h.agn[j] # NoAgg
                      /\ h.aggs[h.agn[j]].cls = "AggregatedPipeFitting"
           r == AggregatedPipeFittingInit(h, { j }, aggr_ports)
       IN IF wrapped THEN WrapJunctions(h, Tail(parents), inner)
          ELSE IF r.raised THEN [raised |-> TRUE, h |-> r.h, ports |-> << >>]
          ELSE WrapJunctions(r.h, Tail(parents), inner)

\* ParallelPump.get_edge_ports, lines 511-512: the junctions of a match with
\* more than two edge elements are merged first
JunctionsMerged(h, E, M, edge_elements) ==
  IF Len(edge_elements) > 2 THEN MergeAdditionalJunctions(h, E, M)
  ELSE [raised |-> FALSE, h |-> h]

\* ParallelPump.get_edge_ports, lines 540-554: the ports connected to the
\* inner ports, and an AggregatedPipeFitting around every junction
InnerEdgePorts(h, edge_inner_ports) ==
  LET edge_ports == [i \in 1 .. Len(edge_inner_ports) |-> Conn(edge_inner_ports[i])]
      parents == IterSet({ parent(Conn(q)) : q \in Range(edge_ports) })
  IN [WrapJunctions(h, parents, edge_inner_ports) EXCEPT !.ports = edge_ports]

\* ParallelPump.get_edge_ports, lines 514-554 (mj: the heap after line 512)
EdgePortsOf(mj, M, edge_elements) ==
  LET elements_in_graph == M \cup UNION { mj.h.aggs[n].elements : n \in M \cap AggIds }
      cand == SelectSeq(FlatPorts(mj.h, edge_elements), LAMBDA p : Conn(p) # NoPort)
      edge_outer_ports ==
        SelectSeq(cand, LAMBDA p : parent(Conn(p)) \notin elements_in_graph)
      edge_inner_ports ==
        SelectSeq(cand, LAMBDA p : parent(Conn(p)) \in elements_in_graph)
  IN IF mj.raised \/ Len(edge_outer_ports) < 2
     THEN [raised |-> TRUE, h |-> mj.h, ports |-> << >>]
     ELSE IF Len(edge_outer_ports) = 2
     THEN [raised |-> FALSE, h |-> mj.h, ports |-> edge_outer_ports]
     ELSE InnerEdgePorts(mj.h, edge_inner_ports)

\* the edge elements of ParallelPump.get_edge_ports, lines 507-509
PumpEdgeElements(h, M) ==
  SelectSeq(SortedSeq(M), LAMBDA n : Len(PortsOf(h, n)) > 2 /\ ClassName(h, n) # "Pump")

\* ParallelPump.get_edge_ports
PumpEdgePorts(h, E, M) ==
  EdgePortsOf(JunctionsMerged(h, E, M, PumpEdgeElements(h, M)), M, PumpEdgeElements(h, M))

\* the loop of ParallelPump.__init__ over originals_dict: one port per parent
RECURSIVE FusePerParent(_, _, _, _)
FusePerParent(h, a, parents, edge_ports) ==
  IF parents = << >> THEN h
  ELSE FusePerParent(
         AppendFusedPort(h, a, SelectSeq(edge_ports,
                                         LAMBDA p : parent(Conn(p)) = Head(parents))),
         a, Tail(parents), edge_ports)

\* ParallelPump.__init__, lines 481-495 (ep: the result of get_edge_ports)
PumpPorts(a, ep) ==
  IF ep.raised THEN [raised |-> TRUE, h |-> ep.h, id |-> a]
  ELSE IF Len(ep.ports) = 2
  THEN [raised |-> FALSE, h |-> AppendPorts(ep.h, a, ep.ports), id |-> a]
  ELSE [raised |-> FALSE, id |-> a,
        h |-> FusePerParent(ep.h, a,
                            IterSet({ parent(Conn(p)) : p \in Range(ep.ports) }),
                            ep.ports)]

\* ParallelPump.__init__
ParallelPumpInit(h, E, M) ==
  PumpPorts(NewId(h), PumpEdgePorts(AggregationInit(h, "ParallelPump", M), E, M))

\* (variant: mapping[original] = original)
OriginalsMappingIdentity(h, a) ==
  LET org == h.aggs[a].originals
  IN [p \in UNION { Range(org[k]) : k \in DOMAIN org } |-> p]

\* for port in agg.ports: for original in port.originals: mapping[original] = port
OriginalsMapping(h, a) ==
  LET org == h.aggs[a].originals
      all == UNION { Range(org[k]) : k \in DOMAIN org }
  IN [p \in all |-> << a, Max({ k \in DOMAIN org : p \in Range(org[k]) }) >>]

\* {port: None for element in self.elements for port in element.ports}
EmptyMapping(h, a) ==
  [p \in UNION { Range(PortsOf(h, e)) : e \in h.aggs[a].elements } |-> NoPort]

\* (variant: the None entries are written after the originals)
GetReplacementMappingNoneLast(h, a) == EmptyMapping(h, a) @@ OriginalsMapping(h, a)

\* PipeStrand / AggregatedPipeFitting .get_replacement_mapping
GetReplacementMapping(h, a) == OriginalsMapping(h, a) @@ EmptyMapping(h, a)

RECURSIVE OriginalsMappings(_, _)
OriginalsMappings(h, as) ==
  IF as = << >> THEN << >>
  ELSE OriginalsMappings(h, Tail(as)) @@ OriginalsMapping(h, Head(as))

\* ParallelPump.get_replacement_mapping
PumpReplacementMapping(h, a) ==
  LET new_aggregations ==
        SortedSeq({ h.agn[e] : e \in h.aggs[a].elements } \ { a, NoAgg })
  IN OriginalsMappings(h, new_aggregations) @@ GetReplacementMapping(h, a)

\* agg.inner_connections: the edges internal to the match
InnerConnections(h, a, E) == SubEdges(E, h.aggs[a].elements)

(***************************************************************************)
(* _calc_avg (kernel/aggregation.py).  An element handed to _calc_avg is a  *)
(* record of its attribute values; an attribute without a value is Missing. *)
(***************************************************************************)
\* None
Missing == -1

\* the truth value of an attribute value: None and 0 are false
Truthy(v) == v # Missing /\ v # 0

\* (variant: an element without a diameter still counts for the length)
RECURSIVE StrandCalcLoopLengthOnly(_, _)
StrandCalcLoopLengthOnly(its, acc) ==
  IF its = << >> THEN acc
  ELSE LET pipe == Head(its)
       IN IF ~Truthy(pipe.length)
          THEN StrandCalcLoopLengthOnly(Tail(its), acc)
          ELSE StrandCalcLoopLengthOnly(Tail(its),
                 [diameter_times_length |->
                     acc.diameter_times_length
                       + (IF Truthy(pipe.diameter) THEN pipe.diameter * pipe.length ELSE 0),
                  total_length |-> acc.total_length + pipe.length])

\* PipeStrand._calc_avg: the loop over self.elements
RECURSIVE StrandCalcLoop(_, _)
StrandCalcLoop(its, acc) ==
  IF its = << >> THEN acc
  ELSE LET pipe == Head(its)
       IN IF ~(Truthy(pipe.length) /\ Truthy(pipe.diameter))
          THEN StrandCalcLoop(Tail(its), acc)
          ELSE StrandCalcLoop(Tail(its),
                 [diameter_times_length |->
                     acc.diameter_times_length + pipe.diameter * pipe.length,
                  total_length |-> acc.total_length + pipe.length])

\* a / b of two numbers, kept as the pair of the two
Quotient(a, b) == [num |-> a, den |-> b]

\* PipeStrand._calc_avg
StrandCalcAvg(its) ==
  LET acc == StrandCalcLoop(its, [diameter_times_length |-> 0, total_length |-> 0])
  IN [cls |-> "PipeStrand", raised |-> FALSE,
      length |-> acc.total_length,
      diameter |-> IF acc.total_length # 0
                   THEN Quotient(acc.diameter_times_length, acc.total_length)
                   ELSE Quotient(0, 1)]

\* ParallelPump._calc_avg: the loop over self.elements.  An aggregate among
\* the elements has the ifc_type None, and "Pump" in None raises TypeError.
RECURSIVE PumpCalcLoop(_, _)
PumpCalcLoop(its, acc) ==
  IF its = << >> \/ acc.raised THEN acc
  ELSE LET item == Head(its)
       IN IF item.ifc_type = "None"
          THEN [acc EXCEPT !.raised = TRUE]
          ELSE IF item.ifc_type = "IfcPump"
          THEN PumpCalcLoop(Tail(its),
                 [acc EXCEPT
                    !.total_rated_volume_flow = @ + item.rated_volume_flow,
                    !.total_rated_power = @ + item.rated_power,
                    !.max_rated_height =
                       IF @ # 0
                       THEN (IF item.rated_height < @ THEN item.rated_height ELSE @)
                       ELSE item.rated_height,
                    !.total_diameter = @ + item.diameter * item.diameter])
          ELSE IF ~(Truthy(item.length) /\ Truthy(item.diameter))
          THEN PumpCalcLoop(Tail(its), acc)
          ELSE PumpCalcLoop(Tail(its),
                 [acc EXCEPT
                    !.diameter_times_length = @ + item.diameter * item.length,
                    !.total_length = @ + item.length])

\* ParallelPump._calc_avg (diameter_squared: the number whose root is the
\* diameter)
PumpCalcAvg(its) ==
  LET acc == PumpCalcLoop(its, [raised |-> FALSE, max_rated_height |-> 0,
                                total_rated_volume_flow |-> 0, total_diameter |-> 0,
                                total_length |-> 0, diameter_times_length |-> 0,
                                total_rated_power |-> 0])
  IN [cls |-> "ParallelPump", raised |-> acc.raised,
      rated_power |-> acc.total_rated_power,
      rated_height |-> acc.max_rated_height,
      rated_volume_flow |-> acc.total_rated_volume_flow,
      diameter_squared |-> acc.total_diameter,
      length |-> acc.total_length,
      diameter_strand |-> IF acc.total_length # 0
                          THEN Quotient(acc.diameter_times_length, acc.total_length)
                          ELSE Quotient(0, 1)]

(***************************************************************************)
(* merge (specification 4.5)                                               *)
(***************************************************************************)
Image(mapping, p) == IF p \in DOMAIN mapping THEN mapping[p] ELSE p

\* the absorbed components: the owners of the ports of the mapping and of the
\* inner connections
Absorbed(mapping, inner_connections) ==
  { parent(p) : p \in DOMAIN mapping \cup UNION inner_connections }

\* an external edge whose port on an absorbed component is not in the mapping
MergeRaises(E, mapping, inner_connections) ==
  \E e \in E \ inner_connections :
    \E p \in e : /\ parent(p) \in Absorbed(mapping, inner_connections)
                 /\ p \notin DOMAIN mapping

MergeNodes(N, mapping, inner_connections) ==
  (N \ Absorbed(mapping, inner_connections))
    \cup { parent(mapping[p]) : p \in { q \in DOMAIN mapping : mapping[q] # NoPort } }

MergeEdges(E, mapping, inner_connections) ==
  { { Image(mapping, p) : p \in e } :
      e \in { d \in E \ inner_connections :
                \A p \in d : Image(mapping, p) # NoPort } }

(***************************************************************************)
(* The rules of Reduce.run                                                 *)
(***************************************************************************)
\* (variant: ParallelPump listed before PipeStrand)
AggregationsPumpFirst == << "UnderfloorHeating", "Consumer", "ParallelPump", "PipeStrand",
                            "ConsumerHeatingDistributorModule" >>

Aggregations == << "UnderfloorHeating", "Consumer", "PipeStrand", "ParallelPump",
                   "ConsumerHeatingDistributorModule" >>

\* PipeStrand.aggregatable_elements (inherited by UnderfloorHeating)
StrandTypes == { "IfcPipeSegment", "IfcPipeFitting" }

\* ParallelPump.aggregatable_elements
PumpTypes == { "IfcPump", "PipeStrand", "IfcPipeSegment", "IfcPipeFitting" }

\* criterion 0 of UnderfloorHeating.check_conditions
MinElements == 20

\* UnderfloorHeating.check_conditions: the number criterion.  The components
\* of the plant carry no positions; a chain that passes the number criterion
\* is accepted with empty metadata.
CheckConditions(S) == ~(Cardinality(S) < MinElements)

\* criterion 2: the share of the ports in one z plane, in tenths
MinShare10 == 8

\* criterion 4: the heating area, in square millimetres
MinArea == 1000000

\* criterion 3: the spacing, in millimetres
MinSpacing == 90

MaxSpacing == 210

\* criterion 5: the area density, in hundredths
MinKpi100 == 1

MaxKpi100 == 9

\* x_spacing and y_spacing of check_conditions: assigned only when the number
\* of elements of the other orientation less one is not 0; the extents handed
\* in are multiples of the counts less one
SpacingOf(extent, count) ==
  IF count - 1 > 0 THEN [bound |-> TRUE, value |-> extent \div (count - 1)]
  ELSE IF count - 1 < 0 THEN [bound |-> TRUE, value |-> -(extent \div (1 - count))]
  ELSE [bound |-> FALSE, value |-> 0]

\* the spacing criterion, 90 * length_unit < spacing < 210 * length_unit for
\* one of the two: x_spacing is read first, y_spacing only when x_spacing is
\* out of range; reading an unassigned one raises
SpacingCriterion(xs, ys) ==
  IF ~xs.bound THEN "UnboundLocalError"
  ELSE IF MinSpacing < xs.value /\ xs.value < MaxSpacing THEN "passed"
  ELSE IF ~ys.bound THEN "UnboundLocalError"
  ELSE IF MinSpacing < ys.value /\ ys.value < MaxSpacing THEN "passed"
  ELSE "failed"

\* UnderfloorHeating.check_conditions on a chain g, given by what the code
\* derives from the positions: n elements, nports ports of which nplane lie
\* in the most frequent z plane, whether every element has a second port
\* (two_ports), the extents dx = max_x - min_x and dy = max_y - min_y of the
\* elements in that plane, the numbers ny and nx of elements in y and in x
\* orientation, the sum of the lengths (length; Missing: a length is None)
\* and the diameter the segments have in common, so that
\* (sum(d ** 2 * l) / total_length) ** 0.5 is that diameter.
CheckConditionsOf(g) ==
  LET heating_area == g.dx * g.dy
      x_spacing == SpacingOf(g.dx, g.ny)
      y_spacing == SpacingOf(g.dy, g.nx)
      spacing == SpacingCriterion(x_spacing, y_spacing)
      kpi100 == 100 * g.length * g.diameter
      outcome ==
        IF g.n < MinElements THEN "failed"
        ELSE IF 10 * g.nplane < MinShare10 * g.nports THEN "failed"
        ELSE IF ~g.two_ports THEN "IndexError"
        ELSE IF heating_area < MinArea THEN "failed"
        ELSE IF spacing # "passed" THEN spacing
        ELSE IF g.length = Missing THEN "TypeError"
        ELSE IF g.length = 0 THEN "ZeroDivisionError"
        ELSE IF ~(MaxKpi100 * heating_area > kpi100 /\ kpi100 > MinKpi100 * heating_area)
          THEN "failed"
        ELSE IF ~y_spacing.bound THEN "UnboundLocalError"
        ELSE "passed"
  IN [raised |-> IF outcome \in { "failed", "passed" } THEN "none" ELSE outcome,
      accepted |-> outcome = "passed",
      meta |-> IF outcome = "passed"
               THEN [length |-> g.length, diameter |-> g.diameter,
                     heating_area |-> heating_area, x_spacing |-> x_spacing.value,
                     y_spacing |-> y_spacing.value]
               ELSE NoMeta]

\* UnderfloorHeating.find_matches on the chains get_type_chains returned,
\* from the i-th chain on: the exception raised, the chains kept so far
\* (their indices in the list of chains) and their metadata
RECURSIVE UnderfloorHeatingFindMatches(_, _, _)
UnderfloorHeatingFindMatches(chains, i, acc) ==
  IF i > Len(chains) THEN acc
  ELSE LET c == CheckConditionsOf(chains[i])
       IN IF c.raised # "none"
          THEN [raised |-> c.raised, graphs |-> << >>, metas |-> << >>]
          ELSE IF c.accepted
            THEN UnderfloorHeatingFindMatches(chains, i + 1,
                   [raised |-> "none", graphs |-> Append(acc.graphs, i),
                    metas |-> Append(acc.metas, c.meta)])
          ELSE UnderfloorHeatingFindMatches(chains, i + 1, acc)

Match(S, meta) == [nodes |-> S, meta |-> meta]

WithMeta(chains) == [i \in 1 .. Len(chains) |-> Match(chains[i], NoMeta)]

\* (variant: the filter len(chain) > 1 is missing)
FindMatchesOfWithSingles(cls, N, E, A, rp) ==
  CASE cls = "UnderfloorHeating" ->
         WithMeta(SelectSeq(GetTypeChains(N, E, A, StrandTypes, TRUE), CheckConditions))
    [] cls = "PipeStrand" -> WithMeta(GetTypeChains(N, E, A, StrandTypes, TRUE))
    [] cls = "ParallelPump" ->
         WithMeta(GetParallels(N, E, A, rp, { "IfcPump" }, PumpTypes \ { "IfcPump" }, 1))
    [] OTHER -> << >>

\* (variant: a chain handed out by the previous call is not returned again)
FindMatchesOfOnce(cls, N, E, A, rp) ==
  CASE cls = "UnderfloorHeating" ->
         WithMeta(SelectSeq(GetTypeChains(N, E, A, StrandTypes, TRUE), CheckConditions))
    [] cls = "PipeStrand" ->
         WithMeta(SelectSeq(GetTypeChains(N, E, A, StrandTypes, TRUE),
                            LAMBDA chain : /\ Cardinality(chain) > 1
                                           /\ Match(chain, NoMeta) \notin Range(matches)))
    [] cls = "ParallelPump" ->
         WithMeta(GetParallels(N, E, A, rp, { "IfcPump" }, PumpTypes \ { "IfcPump" }, 1))
    [] OTHER -> << >>

\* (variant: ParallelPump groups with a threshold of 2)
FindMatchesOfThreshold2(cls, N, E, A, rp) ==
  CASE cls = "UnderfloorHeating" ->
         WithMeta(SelectSeq(GetTypeChains(N, E, A, StrandTypes, TRUE), CheckConditions))
    [] cls = "PipeStrand" ->
         WithMeta(SelectSeq(GetTypeChains(N, E, A, StrandTypes, TRUE),
                            LAMBDA chain : Cardinality(chain) > 1))
    [] cls = "ParallelPump" ->
         WithMeta(GetParallels(N, E, A, rp, { "IfcPump" }, PumpTypes \ { "IfcPump" }, 2))
    [] OTHER -> << >>

\* agg_class.find_matches(graph)
FindMatchesOf(cls, N, E, A, rp) ==
  CASE cls = "UnderfloorHeating" ->
         WithMeta(SelectSeq(GetTypeChains(N, E, A, StrandTypes, TRUE), CheckConditions))
    [] cls = "PipeStrand" ->
         WithMeta(SelectSeq(GetTypeChains(N, E, A, StrandTypes, TRUE),
                            LAMBDA chain : Cardinality(chain) > 1))
    [] cls = "ParallelPump" ->
         WithMeta(GetParallels(N, E, A, rp, { "IfcPump" }, PumpTypes \ { "IfcPump" }, 1))
    [] OTHER -> << >>

\* agg_class(match, **meta)
Construct(cls, h, E, M, meta) ==
  CASE cls = "UnderfloorHeating" -> UnderfloorHeatingInit(h, E, M, meta)
    [] cls = "ParallelPump" -> ParallelPumpInit(h, E, M)
    [] OTHER -> PipeStrandInit(h, cls, E, M, meta)

\* agg.get_replacement_mapping()
ReplacementMapping(cls, h, a) ==
  IF cls = "ParallelPump" THEN PumpReplacementMapping(h, a)
  ELSE GetReplacementMapping(h, a)

\* (variant: merge called inside the try block)
OutcomeMergeInTry(ctor_raised, merge_raised) ==
  IF ctor_raised \/ merge_raised THEN "skipped" ELSE "merged"

\* (variant: no try block around the constructor)
OutcomeNoTry(ctor_raised, merge_raised) ==
  IF ctor_raised \/ merge_raised THEN "propagated" ELSE "merged"

\* the try / except / else of Reduce.run around constructor and merge
Outcome(ctor_raised, merge_raised) ==
  IF ctor_raised THEN "skipped"
  ELSE IF merge_raised THEN "propagated"
  ELSE "merged"

(***************************************************************************)
(* State machine                                                           *)
(***************************************************************************)
Restrict(f, S) == [x \in S |-> f[x]]

\* no _calc_avg call yet
NoResult == [cls |-> "none"]

\* no finished run yet
NoSummary == [statistics |-> << >>, aggregates |-> {}]

Pumps == { c \in Comps : CompType[c] = "IfcPump" }

\* last: the kind of call (connect, disconnect, a repeated find_matches
\* with the matches of the call before it, or the outcome of a pass of the
\* loop of Reduce.run), its arguments (p, q; rule, mi, the match M, the
\* mapping), whether the constructor raised, and the state before the call
\* (conn; the graph N, E)
NoLast == [kind |-> "none", p |-> NoPort, q |-> NoPort, conn |-> << >>,
           rule |-> 0, mi |-> 0, M |-> {}, ctor |-> "none", agg |-> NoAgg,
           mapping |-> << >>, N |-> {}, E |-> {}, matches |-> << >>]

\* no attribute read yet
NoCache == [calls |-> 0]

\* the connections made before the model starts
Partner(p) ==
  IF \E l \in ConnectedLinks : l[1] = p
  THEN (CHOOSE l \in ConnectedLinks : l[1] = p)[2]
  ELSE IF \E l \in ConnectedLinks : l[2] = p
  THEN (CHOOSE l \in ConnectedLinks : l[2] = p)[1]
  ELSE NoPort

\* the state of components, graph and reduction with the connections conn,
\* the rated powers rp of the pumps, the elements its of an aggregate and the
\* position at
InitReduction(conn, rp, its, at) ==
  /\ connection = conn
  /\ ports = [c \in Comps |-> [i \in 1 .. CompPorts[c] |-> << c, i >>]]
  /\ rated_power = rp
  /\ err = "none"
  /\ pc = at
  /\ gnodes = {}
  /\ gedges = {}
  /\ aggregation = [n \in Comps \cup AggIds |-> NoAgg]
  /\ aggs = [a \in AggIds |-> NoObject]
  /\ nAgg = 0
  /\ rule = 1
  /\ matches = << >>
  /\ mi = 1
  /\ cnt = 0
  /\ statistics = [r \in DOMAIN Aggregations |-> -1]
  /\ merged = {}
  /\ seen = << >>
  /\ last = NoLast
  /\ items = its
  /\ result = NoResult
  /\ first = NoSummary

\* pump 6 rated x, the other pumps rated 5
RatedPowers(x) == [c \in Pumps |-> IF c = 6 THEN x ELSE 5]

\* the same with the rated power x of pump 6 and no chain, no attribute
\* read, no template and no position
InitState(conn, x, its, at) ==
  /\ InitReduction(conn, RatedPowers(x), its, at)
  /\ geometry = << >>
  /\ cache = NoCache
  /\ templates = << >>
  /\ position = << >>

InitWith(conn, x) == InitState(conn, x, << >>, "connect")

Init ==
  \E x \in { 6, 7 }, o \in Orders :
    InitWith([p \in ElemPorts |-> Partner(p)], x) /\ order = o

\* port1.connect(port2) called through the Port interface; the caller handles
\* the error
PortConnect(p, q) ==
  /\ pc = "connect"
  /\ connection' = ConnectResult(connection, p, q)
  /\ err' = IF ConnectRaises(connection, p, q) THEN "ConnectivityError" ELSE "none"
  /\ last' = [NoLast EXCEPT !.kind = "connect", !.p = p, !.q = q, !.conn = connection]
  /\ UNCHANGED << geometry, cache, templates, position, order, items, result, first, ports, rated_power, pc, gnodes, gedges, aggregation, aggs, nAgg,
                  rule, matches, mi, cnt, statistics, merged, seen >>

\* port.disconnect() called through the Port interface
PortDisconnect(p) ==
  /\ pc = "connect"
  /\ connection' = DisconnectResult(connection, p)
  /\ err' = "none"
  /\ last' = [NoLast EXCEPT !.kind = "disconnect", !.p = p, !.conn = connection]
  /\ UNCHANGED << geometry, cache, templates, position, order, items, result, first, ports, rated_power, pc, gnodes, gedges, aggregation, aggs, nAgg,
                  rule, matches, mi, cnt, statistics, merged, seen >>

\* ConnectElements.run: port1.connect(port2) for one of the pairs found; an
\* error of connect is not handled and ends the run
Connect(p, q) ==
  /\ pc = "connect"
  /\ connection' = ConnectResult(connection, p, q)
  /\ err' = IF ConnectRaises(connection, p, q) THEN "ConnectivityError" ELSE "none"
  /\ pc' = IF ConnectRaises(connection, p, q) THEN "failed" ELSE "connect"
  /\ UNCHANGED << geometry, cache, templates, position, order, items, result, first, ports, rated_power, gnodes, gedges, aggregation, aggs, nAgg,
                  rule, matches, mi, cnt, statistics, merged, seen, last >>

\* ConnectElements.run: remove all unconnected ports, return the instances
ConnectElementsFinish ==
  /\ pc = "connect"
  /\ ports' = [c \in Comps |->
                 SelectSeq(ports[c], LAMBDA p : connection[p] # NoPort)]
  /\ pc' = "connected"
  /\ UNCHANGED << geometry, cache, templates, position, order, items, result, first, connection, rated_power, err, gnodes, gedges, aggregation, aggs,
                  nAgg, rule, matches, mi, cnt, statistics, merged, seen, last >>

\* MakeGraph.run
MakeGraph ==
  /\ pc = "connected"
  /\ gnodes' = GraphNodes
  /\ gedges' = GraphEdges(connection)
  /\ pc' = "rule"
  /\ UNCHANGED << geometry, cache, templates, position, order, items, result, first, connection, ports, rated_power, err, aggregation, aggs, nAgg,
                  rule, matches, mi, cnt, statistics, merged, seen, last >>

\* (variant: the chains that fail the check are removed from the graph
\* instead of from the list)
FindMatchesRemoving ==
  /\ pc = "rule"
  /\ matches' = FindMatchesOf(Aggregations[rule], gnodes, gedges, aggs, rated_power)
  /\ mi' = 1
  /\ cnt' = 0
  /\ seen' = Append(seen, [cls |-> Aggregations[rule], nodes |-> gnodes,
                            finished |-> { r \in DOMAIN statistics : statistics[r] >= 0 }])
  /\ pc' = "match"
  /\ gnodes' = IF Aggregations[rule] = "UnderfloorHeating"
               THEN gnodes \ UNION Range(SelectSeq(GetTypeChains(gnodes, gedges, aggs,
                                                                 StrandTypes, TRUE),
                                                   LAMBDA c : ~CheckConditions(c)))
               ELSE gnodes
  /\ UNCHANGED << geometry, cache, templates, position, order, items, result, first, connection, ports, rated_power, err,
                  gedges, aggregation, aggs, nAgg, rule, statistics, merged, last >>

\* Reduce.run: matches, metas = agg_class.find_matches(graph); i = 0
FindMatches ==
  /\ pc = "rule"
  /\ matches' = FindMatchesOf(Aggregations[rule], gnodes, gedges, aggs, rated_power)
  /\ mi' = 1
  /\ cnt' = 0
  /\ seen' = Append(seen, [cls |-> Aggregations[rule], nodes |-> gnodes,
                            finished |-> { r \in DOMAIN statistics : statistics[r] >= 0 }])
  /\ pc' = "match"
  /\ UNCHANGED << geometry, cache, templates, position, order, items, result, first, connection, ports, rated_power, err, gnodes, gedges, aggregation,
                  aggs, nAgg, rule, statistics, merged, last >>

\* Reduce.run, lines 436-445: the effect of one pass of the loop body, given
\* the result r of the constructor, the replacement mapping and the outcome
LoopBody(r, mapping, inner_connections, out) ==
  /\ aggregation' = r.h.agn
  /\ aggs' = r.h.aggs
  /\ nAgg' = r.h.n
  /\ gnodes' = IF out = "merged" THEN MergeNodes(gnodes, mapping, inner_connections)
               ELSE gnodes
  /\ gedges' = IF out = "merged"
               THEN MergeEdges(gedges, mapping, inner_connections) ELSE gedges
  /\ merged' = IF out = "merged" THEN merged \cup { r.id } ELSE merged
  /\ cnt' = IF out = "merged" THEN cnt + 1 ELSE cnt
  /\ mi' = IF out = "propagated" THEN mi ELSE mi + 1
  /\ err' = IF out = "propagated" THEN "MergeError" ELSE "none"
  /\ pc' = IF out = "propagated" THEN "fatal" ELSE "match"
  /\ last' = [NoLast EXCEPT !.kind = out, !.rule = rule, !.mi = mi,
                            !.M = matches[mi].nodes, !.agg = r.id,
                            !.ctor = IF r.raised THEN "raised" ELSE "returned",
                            !.mapping = mapping, !.N = gnodes, !.E = gedges]

\* the mapping handed to merge, without the ports K
Merging(K, r, mapping) ==
  /\ K \subseteq DOMAIN mapping
  /\ LoopBody(r, Restrict(mapping, DOMAIN mapping \ K),
              InnerConnections(r.h, r.id, gedges),
              Outcome(r.raised,
                      /\ ~r.raised
                      /\ MergeRaises(gedges, Restrict(mapping, DOMAIN mapping \ K),
                                     InnerConnections(r.h, r.id, gedges))))

\* Reduce.run, lines 441-445, after the constructor returned or raised r
Constructed(r) ==
  Merging({}, r, IF r.raised THEN << >>
                 ELSE ReplacementMapping(Aggregations[rule], r.h, r.id))

\* Reduce.run: one pass of the loop over the matches
ProcessMatch ==
  /\ pc = "match"
  /\ mi <= Len(matches)
  /\ nAgg + 3 <= MaxAgg
  /\ Constructed(Construct(Aggregations[rule],
                           [agn |-> aggregation, aggs |-> aggs, n |-> nAgg],
                           gedges, matches[mi].nodes, matches[mi].meta))
  /\ UNCHANGED << geometry, cache, templates, position, order, items, result, first, connection, ports, rated_power, rule, matches, statistics, seen >>

\* the same pass for a rule whose replacement mapping lacks one port
FaultyMapping(r, mapping) == \E p \in DOMAIN mapping : Merging({ p }, r, mapping)

ConstructedFaulty(r) ==
  FaultyMapping(r, IF r.raised THEN << >>
                   ELSE ReplacementMapping(Aggregations[rule], r.h, r.id))

ProcessMatchFaulty ==
  /\ pc = "match"
  /\ mi <= Len(matches)
  /\ nAgg + 3 <= MaxAgg
  /\ ConstructedFaulty(Construct(Aggregations[rule],
                                 [agn |-> aggregation, aggs |-> aggs, n |-> nAgg],
                                 gedges, matches[mi].nodes, matches[mi].meta))
  /\ UNCHANGED << geometry, cache, templates, position, order, items, result, first, connection, ports, rated_power, rule, matches, statistics, seen >>

\* Reduce.run: statistics[name] = i, then the next rule or the return
EndRule ==
  /\ pc = "match"
  /\ mi > Len(matches)
  /\ statistics' = [statistics EXCEPT ![rule] = cnt]
  /\ rule' = IF rule < Len(Aggregations) THEN rule + 1 ELSE rule
  /\ pc' = IF rule < Len(Aggregations) THEN "rule" ELSE "done"
  /\ UNCHANGED << geometry, cache, templates, position, order, items, result, first, connection, ports, rated_power, err, gnodes, gedges, aggregation,
                  aggs, nAgg, matches, mi, cnt, merged, seen, last >>

Next ==
  \/ \E l \in CandidateLinks : Connect(l[1], l[2])
  \/ ConnectElementsFinish
  \/ MakeGraph
  \/ FindMatches
  \/ ProcessMatch
  \/ EndRule

Spec == Init /\ [][Next]_vars

\* the Port interface on its own, on the ports of the components 1 to 4
PortLinks == { l \in CandidateLinks : parent(l[1]) <= 4 /\ parent(l[2]) <= 4 }

NextPort ==
  \/ \E l \in PortLinks : PortConnect(l[1], l[2]) \/ PortConnect(l[2], l[1])
  \/ \E p \in { q \in ElemPorts : parent(q) <= 4 } : PortDisconnect(p)

\* the ports before any connection is made
InitPort == InitWith([p \in ElemPorts |-> NoPort], 6) /\ order = "asc"

SpecPort == InitPort /\ [][NextPort]_vars

\* Reduce.run over rules whose replacement mapping may lack a port
NextFaulty == Next \/ ProcessMatchFaulty

\* one iteration order and one rated power: neither bears on merge
InitFaulty == InitWith([p \in ElemPorts |-> Partner(p)], 6) /\ order = "asc"

SpecFaulty == InitFaulty /\ [][NextFaulty]_vars

\* The port pairs of the strands at the distributor: pipes 2 and 3, the
\* distributor 13, pipes 14 and 15 in a row; the boiler at the outer end of
\* pipe 2 and pipe 8 at the third port of the distributor.
StrandLinks ==
  { << <<1, 2>>, <<2, 1>> >>, << <<2, 2>>, <<3, 1>> >>, << <<3, 2>>, <<13, 1>> >>,
    << <<13, 2>>, <<14, 1>> >>, << <<14, 2>>, <<15, 1>> >>, << <<13, 3>>, <<8, 1>> >> }

\* the subgraphs handed to the constructor
ForcedMatches == { { 2, 3, 13, 14, 15 }, { 2, 3 }, { 14, 15 }, { 3, 13, 14 },
                   { 2, 3, 8, 13, 14, 15 } }

\* PipeStrand(name, graph.subgraph(M)) called directly, as the tests do
ForceConstructed(r, M) ==
  /\ aggregation' = r.h.agn
  /\ aggs' = r.h.aggs
  /\ nAgg' = r.h.n
  /\ err' = IF r.raised THEN "AttributeError" ELSE "none"
  /\ last' = [NoLast EXCEPT !.kind = "forced", !.M = M, !.agg = r.id,
                            !.ctor = IF r.raised THEN "raised" ELSE "returned",
                            !.N = gnodes, !.E = gedges]

ForceConstruct(M) ==
  /\ pc = "rule"
  /\ pc' = "forced"
  /\ ForceConstructed(PipeStrandInit([agn |-> aggregation, aggs |-> aggs, n |-> nAgg],
                                     "PipeStrand", gedges, M, NoMeta), M)
  /\ UNCHANGED << geometry, cache, templates, position, order, items, result, first, connection, ports, rated_power, gnodes,
                  gedges, rule, matches, mi, cnt, statistics, merged, seen >>

NextForce ==
  \/ \E l \in StrandLinks : Connect(l[1], l[2])
  \/ ConnectElementsFinish
  \/ MakeGraph
  \/ \E M \in ForcedMatches : ForceConstruct(M)

\* the constructor called on subgraphs of the caller's choice
SpecForce == InitPort /\ [][NextForce]_vars

\* g = 9.81 in hundredths, rho = 1000
G100 == 981

Rho == 1000

\* Cap on the number of elements handed to _calc_avg.
MaxItems == 3

\* the attribute values of a pipe, of a pump (its rated power follows from
\* flow and height) and of a PipeStrand aggregate
PipeItems ==
  { [ifc_type |-> "IfcPipeSegment", length |-> l, diameter |-> d,
     rated_height |-> Missing, rated_volume_flow |-> Missing, rated_power |-> Missing] :
      l \in { Missing, 0, 1, 2 }, d \in { Missing, 0, 3, 5 } }

PumpItems ==
  { [ifc_type |-> "IfcPump", length |-> Missing, diameter |-> 2,
     rated_height |-> h, rated_volume_flow |-> f,
     rated_power |-> (f * h * G100 * Rho) \div 100] :
      h \in { 0, 1, 2 }, f \in { 1, 2 } }

StrandItems ==
  { [ifc_type |-> "None", length |-> 2, diameter |-> 3,
     rated_height |-> Missing, rated_volume_flow |-> Missing, rated_power |-> Missing] }

ItemValues == PipeItems \cup PumpItems \cup StrandItems

\* the elements of a PipeStrand are pipe-like components
StrandCalc ==
  /\ pc = "calc"
  /\ \A i \in DOMAIN items : items[i].ifc_type \in StrandTypes
  /\ result' = StrandCalcAvg(items)
  /\ pc' = "calculated"
  /\ UNCHANGED << geometry, cache, templates, position, order, items, first, connection, ports, rated_power, err, gnodes,
                  gedges, aggregation, aggs, nAgg, rule, matches, mi, cnt, statistics,
                  merged, seen, last >>

\* the elements of a ParallelPump: pumps, pipes, fittings and PipeStrands
PumpCalc ==
  /\ pc = "calc"
  /\ \E i \in DOMAIN items : items[i].ifc_type = "IfcPump"
  /\ result' = PumpCalcAvg(items)
  /\ pc' = "calculated"
  /\ UNCHANGED << geometry, cache, templates, position, order, items, first, connection, ports, rated_power, err, gnodes,
                  gedges, aggregation, aggs, nAgg, rule, matches, mi, cnt, statistics,
                  merged, seen, last >>

InitCalc ==
  \E n \in 1 .. MaxItems : \E its \in [1 .. n -> ItemValues] :
    InitState([p \in ElemPorts |-> NoPort], 6, its, "calc") /\ order = "asc"

NextCalc == StrandCalc \/ PumpCalc

\* _calc_avg on its own, on the elements of the caller's choice
SpecCalc == InitCalc /\ [][NextCalc]_vars

\* the components an aggregate stands for, through nested aggregates
MembersOf(A, a) ==
  (A[a].elements \cap Comps)
    \cup UNION { A[b].elements \cap Comps : b \in A[a].elements \cap AggIds }

\* rated_power of a ParallelPump: the sum over its pumps (_calc_avg)
RECURSIVE TotalRatedPower(_)
TotalRatedPower(S) ==
  IF S = {} THEN 0 ELSE rated_power[Min(S)] + TotalRatedPower(S \ { Min(S) })

\* the outcome of a run of Reduce.run: the statistics, and for every aggregate
\* its class, members, attribute values and the originals of its ports
Summary ==
  [ statistics |-> statistics,
    aggregates |->
      { [cls |-> aggs[a].cls, members |-> MembersOf(aggs, a), attrs |-> aggs[a].attrs,
         rated_power |-> IF aggs[a].cls = "ParallelPump"
                         THEN TotalRatedPower(MembersOf(aggs, a) \cap Pumps) ELSE 0,
         originals |-> { Range(aggs[a].originals[k]) : k \in DOMAIN aggs[a].originals },
         merged |-> a \in merged] :
          a \in { b \in AggIds : aggs[b].cls # "none" } },
    order |-> order ]

\* find_matches of the current rule called a second time on the same graph
FindMatchesAgain ==
  /\ pc = "match"
  /\ mi = 1
  /\ ~(last.kind = "again" /\ last.rule = rule)
  /\ matches' = FindMatchesOf(Aggregations[rule], gnodes, gedges, aggs, rated_power)
  /\ last' = [NoLast EXCEPT !.kind = "again", !.rule = rule, !.N = gnodes,
                            !.E = gedges, !.matches = matches]
  /\ UNCHANGED << geometry, cache, templates, position, order, items, result, first, connection, ports, rated_power, err, pc,
                  gnodes, gedges, aggregation, aggs, nAgg, rule, mi, cnt, statistics,
                  merged, seen >>

\* a second, independent run of MakeGraph.run and Reduce.run on the same
\* instances and connections
Restart ==
  /\ pc = "done"
  /\ first = NoSummary
  /\ first' = Summary
  /\ order' \in Orders
  /\ gnodes' = GraphNodes
  /\ gedges' = GraphEdges(connection)
  /\ aggregation' = [n \in Comps \cup AggIds |-> NoAgg]
  /\ aggs' = [a \in AggIds |-> NoObject]
  /\ nAgg' = 0
  /\ rule' = 1
  /\ matches' = << >>
  /\ mi' = 1
  /\ cnt' = 0
  /\ statistics' = [r \in DOMAIN Aggregations |-> -1]
  /\ merged' = {}
  /\ seen' = << >>
  /\ last' = NoLast
  /\ err' = "none"
  /\ pc' = "rule"
  /\ UNCHANGED << geometry, cache, templates, position, items, result, connection, ports, rated_power >>

\* the port pairs of the circuit with the pumps 5 and 6
RerunLinks ==
  { l \in CandidateLinks :
      { l[1], l[2] } \in { { <<2, 2>>, <<3, 1>> },
                          { <<3, 2>>, <<4, 1>> }, { <<4, 3>>, <<6, 1>> },
                          { <<6, 2>>, <<7, 2>> }, { <<7, 3>>, <<8, 1>> },
                          { <<4, 4>>, <<1, 1>> } } }

InitRerun ==
  \E o \in Orders : InitWith([p \in ElemPorts |-> Partner(p)], 6) /\ order = o

NextRerun ==
  \/ \E l \in RerunLinks : Connect(l[1], l[2])
  \/ ConnectElementsFinish
  \/ MakeGraph
  \/ FindMatches
  \/ FindMatchesAgain
  \/ ProcessMatch
  \/ EndRule
  \/ Restart

\* the reduction with repeated calls of find_matches, run twice
SpecRerun == InitRerun /\ [][NextRerun]_vars

\* the connections of the port pairs L
Wired(L) ==
  [p \in ElemPorts |->
     IF \E l \in L : l[1] = p THEN (CHOOSE l \in L : l[1] = p)[2]
     ELSE IF \E l \in L : l[2] = p THEN (CHOOSE l \in L : l[2] = p)[1]
     ELSE NoPort]

\* the chains handed to check_conditions: 19 or 20 elements; 31 or 32 of 40
\* ports in one plane; an element with one port or none such; extents in
\* millimetres; 0 to 3 elements in y orientation, 1, 2 or 41 in x
\* orientation; a length that is None, 0 or 10 m; diameters of 5 and 50 mm
ChainValues ==
  { [n |-> n, nports |-> 40, nplane |-> z, two_ports |-> t, dx |-> dx, dy |-> dy,
     ny |-> ny, nx |-> nx, length |-> l, diameter |-> d] :
      n \in { MinElements - 1, MinElements }, z \in { 31, 32 }, t \in BOOLEAN,
      dx \in { 180, 300, 420 }, dy \in { 2000, 6000 }, ny \in 0 .. 3,
      nx \in { 1, 2, 41 }, l \in { Missing, 0, 10000 }, d \in { 5, 50 } }

\* matches, metas = UnderfloorHeating.find_matches(graph)
UnderfloorFindMatches ==
  /\ pc = "chains"
  /\ LET f == UnderfloorHeatingFindMatches(geometry, 1,
                 [raised |-> "none", graphs |-> << >>, metas |-> << >>])
     IN /\ result' = [cls |-> "UnderfloorHeating", raised |-> f.raised,
                      graphs |-> f.graphs, metas |-> f.metas]
        /\ err' = f.raised
        /\ pc' = IF f.raised = "none" THEN "found" ELSE "raised"
  /\ UNCHANGED << geometry, cache, templates, position, order, items, first,
                  connection, ports, rated_power, gnodes, gedges, aggregation, aggs,
                  nAgg, rule, matches, mi, cnt, statistics, merged, seen, last >>

\* agg_class(match, **meta) for the k-th match and the k-th metadata; the
\* pipes 2 and 3 stand for the components of the chain: the constructor does
\* not count them
UnderfloorConstruct(k) ==
  /\ pc = "found"
  /\ k \in DOMAIN result.graphs
  /\ LET r == UnderfloorHeatingInit([agn |-> aggregation, aggs |-> aggs, n |-> nAgg],
                                    GraphEdges(connection), { 2, 3 }, result.metas[k])
     IN /\ aggregation' = r.h.agn
        /\ aggs' = r.h.aggs
        /\ nAgg' = r.h.n
        /\ err' = IF r.raised THEN "AttributeError" ELSE "none"
        /\ last' = [NoLast EXCEPT !.kind = "underfloor", !.mi = k, !.M = { 2, 3 },
                                  !.agg = r.id,
                                  !.ctor = IF r.raised THEN "raised" ELSE "returned"]
  /\ pc' = "constructed"
  /\ UNCHANGED << geometry, cache, templates, position, order, items, result, first,
                  connection, ports, rated_power, gnodes, gedges, rule, matches, mi,
                  cnt, statistics, merged, seen >>

\* one chain, or two, the second of which fails the number criterion or
\* passes every criterion; the pipes 2 and 3 connected between the boiler and
\* the distributor
InitUnderfloor ==
  /\ InitReduction(Wired({ << <<1, 2>>, <<2, 1>> >>, << <<2, 2>>, <<3, 1>> >>,
                           << <<3, 2>>, <<13, 1>> >> }),
                   RatedPowers(6), << >>, "chains")
  /\ order = "asc"
  /\ geometry \in { << g >> : g \in ChainValues }
                    \cup { << g, h >> :
                             g \in ChainValues,
                             h \in { c \in ChainValues :
                                       /\ c.nplane = 32 /\ c.two_ports /\ c.dx = 300
                                       /\ c.dy = 6000 /\ c.ny = 3 /\ c.nx = 41
                                       /\ c.length = 10000 /\ c.diameter = 5 } }
  /\ cache = NoCache
  /\ templates = << >>
  /\ position = << >>

NextUnderfloor ==
  \/ UnderfloorFindMatches
  \/ \E k \in 1 .. 2 : UnderfloorConstruct(k)

\* find_matches of UnderfloorHeating on chains of the caller's choice, and the
\* constructor on a match it returned
SpecUnderfloor == InitUnderfloor /\ [][NextUnderfloor]_vars

\* Cap on the number of attribute reads.
MaxReads == 3

\* the properties of the classes of ifc2python/aggregation.py
PropertyNames(cls) ==
  CASE cls = "PipeStrand" -> { "diameter", "length" }
    [] cls = "UnderfloorHeating" ->
         { "diameter", "length", "heating_area", "x_spacing", "y_spacing" }
    [] cls = "ParallelPump" ->
         { "rated_power", "rated_height", "rated_volume_flow", "diameter" }

\* the function a property calls while its private field is None
CalcOf(cls, name) ==
  IF cls = "UnderfloorHeating" /\ name = "heating_area" THEN "_calc_properties"
  ELSE "_calc_avg"

\* the properties whose private fields a function assigns
AssignedBy(cls, calc) ==
  CASE cls = "UnderfloorHeating" /\ calc = "_calc_avg" -> { "diameter", "length" }
    [] cls = "UnderfloorHeating" /\ calc = "_calc_properties" ->
         { "heating_area", "x_spacing", "y_spacing" }
    [] OTHER -> PropertyNames(cls)

\* the aggregate after __init__: every private field is None
NewCache(cls) ==
  [cls |-> cls, values |-> [a \in PropertyNames(cls) |-> Missing],
   calls |-> [f \in { CalcOf(cls, name) : name \in PropertyNames(cls) } |-> 0],
   reads |-> << >>]

\* aggregate.<name> read: the property calls its function if the private
\* field is None and returns the field; the number a function assigns stands
\* as 0
ReadAttribute(name) ==
  /\ pc = "attributes"
  /\ Len(cache.reads) < MaxReads
  /\ name \in PropertyNames(cache.cls)
  /\ cache' =
       IF cache.values[name] = Missing
       THEN [cache EXCEPT
               !.values = [a \in DOMAIN @ |->
                             IF a \in AssignedBy(cache.cls, CalcOf(cache.cls, name))
                             THEN 0 ELSE @[a]],
               !.calls[CalcOf(cache.cls, name)] = @ + 1,
               !.reads = Append(@, name)]
       ELSE [cache EXCEPT !.reads = Append(@, name)]
  /\ result' = [cls |-> cache.cls, attribute |-> name, value |-> cache'.values[name]]
  /\ UNCHANGED << geometry, templates, position, order, items, first, connection,
                  ports, rated_power, err, pc, gnodes, gedges, aggregation, aggs, nAgg,
                  rule, matches, mi, cnt, statistics, merged, seen, last >>

InitAttributes ==
  /\ InitReduction([p \in ElemPorts |-> NoPort], RatedPowers(6), << >>, "attributes")
  /\ order = "asc"
  /\ geometry = << >>
  /\ cache \in { NewCache(cls) : cls \in { "PipeStrand", "UnderfloorHeating",
                                           "ParallelPump" } }
  /\ templates = << >>
  /\ position = << >>

NextAttributes ==
  \E name \in PropertyNames("UnderfloorHeating") \cup PropertyNames("ParallelPump") :
    ReadAttribute(name)

\* the attributes of an aggregate read in any order
SpecAttributes == InitAttributes /\ [][NextAttributes]_vars

\* Four pumps in parallel between the fittings 4 and 7, every port of the
\* two fittings taken by a pump; the pumps 5 and 6 rated 5, the pumps 11 and
\* 12 rated 5 or 7
InitShared ==
  \E x \in { 5, 7 }, o \in Orders :
    /\ InitReduction(Wired({ << <<4, 2>>, <<5, 1>> >>, << <<5, 2>>, <<7, 1>> >>,
                             << <<4, 3>>, <<6, 1>> >>, << <<6, 2>>, <<7, 2>> >>,
                             << <<4, 1>>, <<11, 1>> >>, << <<11, 2>>, <<7, 3>> >>,
                             << <<4, 4>>, <<12, 1>> >>, << <<12, 2>>, <<7, 4>> >> }),
                     [c \in Pumps |-> IF c \in { 11, 12 } THEN x ELSE 5], << >>, "connect")
    /\ order = o
    /\ geometry = << >>
    /\ cache = NoCache
    /\ templates = << >>
    /\ position = << >>

\* the port pairs of the boiler and the pipes 2 and 3 are connected or not
NextShared ==
  \/ \E l \in { c \in CandidateLinks :
                  { parent(c[1]), parent(c[2]) } \subseteq { 1, 2, 3 } } :
       Connect(l[1], l[2])
  \/ ConnectElementsFinish
  \/ MakeGraph
  \/ FindMatches
  \/ ProcessMatch
  \/ EndRule

\* the reduction of a plant with four parallel pumps between two fittings
SpecShared == InitShared /\ [][NextShared]_vars

(***************************************************************************)
(* TemplateFinder (kernel/finder.py)                                       *)
(***************************************************************************)
\* the element classes: ifc_type is a string or, for the wall, a list
ElementClasses ==
  { [class |-> "Pipe", types |-> << "IfcPipeSegment" >>, listed |-> FALSE],
    [class |-> "PipeFitting", types |-> << "IfcPipeFitting" >>, listed |-> FALSE],
    [class |-> "Wall", types |-> << "IfcWall", "IfcWallStandardCase" >>, listed |-> TRUE] }

ClassOf(name) == CHOOSE c \in ElementClasses : c.class = name

\* a dict is a function on the keys it holds, {} the empty function << >>
DictGet(d, k) == IF k \in DOMAIN d THEN d[k] ELSE << >>

DictPut(d, k, v) == [x \in DOMAIN d \cup { k } |-> IF x = k THEN v ELSE d[x]]

\* the instances: two pipes and a fitting exported by one tool (the second
\* pipe without the property Laenge, the fitting without property sets), a
\* pipe exported by another tool, a wall
Instances ==
  { [guid |-> "pipe1", class |-> "Pipe", source_tool |-> "Revit",
     ifc |-> [Abmessungen |-> [Laenge |-> 100, Innendurchmesser |-> 30]]],
    [guid |-> "pipe2", class |-> "Pipe", source_tool |-> "Revit",
     ifc |-> [Abmessungen |-> [Innendurchmesser |-> 30]]],
    [guid |-> "pipefitting1", class |-> "PipeFitting", source_tool |-> "Revit",
     ifc |-> << >>],
    [guid |-> "pipe3", class |-> "Pipe", source_tool |-> "ArchiCAD",
     ifc |-> [Abmessungen |-> [Laenge |-> 200, Innendurchmesser |-> 30]]],
    [guid |-> "wall1", class |-> "Wall", source_tool |-> "Revit",
     ifc |-> [Abmessungen |-> [Laenge |-> 300, Innendurchmesser |-> 0]]] }

\* the element argument of set: a type name, a class or an instance
SetElements ==
  { [kind |-> "name", name |-> n, class |-> "none"] :
      n \in { "IfcPipeSegment", "IfcPipeFitting", "IfcWall" } }
    \cup { [kind |-> "class", name |-> "none", class |-> c.class] : c \in ElementClasses }
    \cup { [kind |-> "instance", name |-> "none", class |-> i.class] : i \in Instances }

\* (variant: the parameter dict of the type is started anew)
TemplateSetFreshDict(t, tool, element, parameter, property_set_name, property_name) ==
  LET element_dict == DictGet(t, tool)
      element_name == IF element.kind = "name" THEN element.name
                      ELSE ClassOf(element.class).types[1]
  IN IF element.kind # "name" /\ ClassOf(element.class).listed
     THEN [raised |-> "TypeError", templates |-> t]
     ELSE [raised |-> "none",
           templates |->
             DictPut(t, tool,
               DictPut(element_dict, element_name,
                 DictPut(<< >>, parameter,
                         << property_set_name, property_name >>)))]

\* TemplateFinder.set: a list as ifc_type is no key of a dict
TemplateSet(t, tool, element, parameter, property_set_name, property_name) ==
  LET element_dict == DictGet(t, tool)
      element_name == IF element.kind = "name" THEN element.name
                      ELSE ClassOf(element.class).types[1]
      parameter_dict == DictGet(element_dict, element_name)
  IN IF element.kind # "name" /\ ClassOf(element.class).listed
     THEN [raised |-> "TypeError", templates |-> t]
     ELSE [raised |-> "none",
           templates |->
             DictPut(t, tool,
               DictPut(element_dict, element_name,
                 DictPut(parameter_dict, parameter,
                         << property_set_name, property_name >>)))]

\* self.templates[key1][key2][key3]
Known(t, key1, key2, key3) ==
  /\ key1 \in DOMAIN t
  /\ key2 \in DOMAIN t[key1]
  /\ key3 \in DOMAIN t[key1][key2]

\* TemplateFinder.find: the outcomes.  What get_Property_Set does for a
\* property set the IFC data lack is not in the sources: it raises
\* AttributeError or yields None, on which .get raises AttributeError.
TemplateFind(t, element, property_name) ==
  LET key1 == element.source_tool
      key2 == ClassOf(element.class).types[1]
      key3 == property_name
      res == t[key1][key2][key3]
  IN IF ~Known(t, key1, key2, key3)
     THEN [raised |-> "AttributeError", value |-> Missing]
     ELSE IF res[1] \notin DOMAIN element.ifc
     THEN [raised |-> "AttributeError", value |-> Missing]
     ELSE IF res[2] \notin DOMAIN element.ifc[res[1]]
     THEN [raised |-> "none", value |-> Missing]
     ELSE [raised |-> "none", value |-> element.ifc[res[1]][res[2]]]

\* finder.set(tool, element, parameter, property_set_name, property_name)
FinderSet(tool, element, parameter, property_set_name, property_name) ==
  /\ pc = "finder"
  /\ LET r == TemplateSet(templates, tool, element, parameter, property_set_name,
                          property_name)
     IN /\ templates' = r.templates
        /\ err' = r.raised
        /\ result' = [cls |-> "TemplateFinder", op |-> "set", tool |-> tool,
                      element |-> element, parameter |-> parameter,
                      source |-> << property_set_name, property_name >>,
                      before |-> templates, raised |-> r.raised, value |-> Missing]
  /\ UNCHANGED << geometry, cache, position, order, items, first, connection, ports,
                  rated_power, pc, gnodes, gedges, aggregation, aggs, nAgg, rule,
                  matches, mi, cnt, statistics, merged, seen, last >>

\* finder.find(element, property_name)
FinderFind(element, property_name) ==
  /\ pc = "finder"
  /\ LET r == TemplateFind(templates, element, property_name)
     IN /\ err' = r.raised
        /\ result' = [cls |-> "TemplateFinder", op |-> "find",
                      tool |-> element.source_tool, element |-> element,
                      parameter |-> property_name, source |-> << >>,
                      before |-> templates, raised |-> r.raised, value |-> r.value]
  /\ UNCHANGED << geometry, cache, templates, position, order, items, first,
                  connection, ports, rated_power, pc, gnodes, gedges, aggregation,
                  aggs, nAgg, rule, matches, mi, cnt, statistics, merged, seen, last >>

InitFinder ==
  /\ InitReduction([p \in ElemPorts |-> NoPort], RatedPowers(6), << >>, "finder")
  /\ order = "asc"
  /\ geometry = << >>
  /\ cache = NoCache
  /\ templates = << >>
  /\ position = << >>

NextFinder ==
  \/ \E element \in SetElements, parameter \in { "length", "diameter" },
        pn \in { "Laenge", "Innendurchmesser" } :
       FinderSet("Revit", element, parameter, "Abmessungen", pn)
  \/ \E element \in Instances, parameter \in { "length", "diameter" } :
       FinderFind(element, parameter)

\* a TemplateFinder with calls of set and find in any order
SpecFinder == InitFinder /\ [][NextFinder]_vars

(***************************************************************************)
(* ConnectElements.connections_by_position (task/hvac/hvac.py)             *)
(***************************************************************************)
\* eps of connections_by_position
Eps == 10

\* all_ports: the ports of the instances, in order
RECURSIVE AllPortsFrom(_, _)
AllPortsFrom(pts, c) ==
  IF c > Len(pts) THEN << >> ELSE pts[c] \o AllPortsFrom(pts, c + 1)

\* pairs of indices in the order of itertools.combinations(ports, 2)
RECURSIVE InCombinationOrder(_)
InCombinationOrder(S) ==
  IF S = {} THEN << >>
  ELSE LET c == CHOOSE x \in S :
                  \A y \in S : x[1] < y[1] \/ (x[1] = y[1] /\ x[2] <= y[2])
       IN << c >> \o InCombinationOrder(S \ { c })

\* port_distance and max(abs(delta)); a port without position has the
\* position << >>, and Missing is the delta None
AbsDelta(pos, p, q) ==
  IF pos[p] = << >> \/ pos[q] = << >> THEN Missing
  ELSE Max({ Abs(pos[p][k] - pos[q][k]) : k \in DOMAIN pos[p] })

\* the edges of the graph connections_by_position builds, in the order they
\* are added
CloseEdges(pos, ps) ==
  LET close(c) == /\ parent(ps[c[1]]) # parent(ps[c[2]])
                  /\ AbsDelta(pos, ps[c[1]], ps[c[2]]) # Missing
                  /\ AbsDelta(pos, ps[c[1]], ps[c[2]]) < Eps
      kept == InCombinationOrder({ c \in (DOMAIN ps) \X (DOMAIN ps) :
                                     c[1] < c[2] /\ close(c) })
  IN [k \in DOMAIN kept |->
        [a |-> ps[kept[k][1]], b |-> ps[kept[k][2]],
         delta |-> AbsDelta(pos, ps[kept[k][1]], ps[kept[k][2]])]]

\* the nodes of the graph in the order they were added
RECURSIVE NodesOf(_, _)
NodesOf(E, acc) ==
  IF E = << >> THEN acc
  ELSE LET e == Head(E)
           a1 == IF e.a \in Range(acc) THEN acc ELSE Append(acc, e.a)
           a2 == IF e.b \in Range(a1) THEN a1 ELSE Append(a1, e.b)
       IN NodesOf(Tail(E), a2)

\* graph.edges(port)
EdgesOfPort(E, port) == SelectSeq(E, LAMBDA e : e.a = port \/ e.b = port)

\* the loop over the conflicts: of the candidates of a port, sorted by delta,
\* the first is kept if its delta is less than that of the second (it is
\* the only one with the least delta), else none is kept
RECURSIVE Verify(_, _)
Verify(conflicts, E) ==
  IF conflicts = << >> THEN E
  ELSE LET candidates == EdgesOfPort(E, Head(conflicts))
           least == Min({ candidates[k].delta : k \in DOMAIN candidates })
           closest == SelectSeq(candidates, LAMBDA e : e.delta = least)
           keep(e) == \/ ~(e.a = Head(conflicts) \/ e.b = Head(conflicts))
                      \/ Len(closest) = 1 /\ e = closest[1]
       IN IF Len(candidates) <= 1 THEN Verify(Tail(conflicts), E)
          ELSE Verify(Tail(conflicts), SelectSeq(E, keep))

\* list(graph.edges()): node by node, each edge once
RECURSIVE EdgeList(_, _, _)
EdgeList(nodes, E, acc) ==
  IF nodes = << >> THEN acc
  ELSE LET n == Head(nodes)
           mine == EdgesOfPort(E, n)
           fresh == SelectSeq(mine, LAMBDA e : { e.a, e.b } \notin { { x[1], x[2] } : x \in Range(acc) })
       IN EdgeList(Tail(nodes), E,
                   acc \o [k \in DOMAIN fresh |->
                             << n, IF fresh[k].a = n THEN fresh[k].b ELSE fresh[k].a >>])

\* (variant: the conflicts are not resolved)
ConnectionsByPositionUnverified(pos, ps) ==
  LET E == CloseEdges(pos, ps)
  IN EdgeList(NodesOf(E, << >>), E, << >>)

\* ConnectElements.connections_by_position(ports)
ConnectionsByPosition(pos, ps) ==
  LET E == CloseEdges(pos, ps)
      nodes == NodesOf(E, << >>)
      conflicts == SelectSeq(nodes, LAMBDA n : Len(EdgesOfPort(E, n)) > 1)
  IN EdgeList(nodes, Verify(conflicts, E), << >>)

\* ConnectElements.run: pos_connections = connections_by_position(the ports
\* that are not connected)
PositionConnections ==
  /\ pc = "connect"
  /\ position # << >>
  /\ LET unconnected_ports == SelectSeq(AllPortsFrom(ports, 1),
                                        LAMBDA p : connection[p] = NoPort)
         pairs == ConnectionsByPosition(position, unconnected_ports)
     IN result' = [cls |-> "ConnectElements", pairs |-> pairs, todo |-> pairs]
  /\ pc' = "pairs"
  /\ UNCHANGED << geometry, cache, templates, position, order, items, first,
                  connection, ports, rated_power, err, gnodes, gedges, aggregation,
                  aggs, nAgg, rule, matches, mi, cnt, statistics, merged, seen, last >>

\* ConnectElements.run: port1.connect(port2) for the next of pos_connections
PositionConnect ==
  /\ pc = "pairs"
  /\ result.todo # << >>
  /\ LET p == Head(result.todo)[1]
         q == Head(result.todo)[2]
     IN /\ connection' = ConnectResult(connection, p, q)
        /\ err' = IF ConnectRaises(connection, p, q) THEN "ConnectivityError" ELSE "none"
        /\ pc' = IF ConnectRaises(connection, p, q) THEN "failed" ELSE "pairs"
  /\ result' = [result EXCEPT !.todo = Tail(@)]
  /\ UNCHANGED << geometry, cache, templates, position, order, items, first, ports,
                  rated_power, gnodes, gedges, aggregation, aggs, nAgg, rule,
                  matches, mi, cnt, statistics, merged, seen, last >>

\* the ports that have a position: one of the boiler and one of pipe 2,
\* connected by relation, and five open ports of the pipes 2, 3 and 8 and of
\* the fitting 4
PlacedPorts == { <<2, 2>>, <<3, 1>>, <<3, 2>>, <<4, 1>>, <<8, 1>> }

InitPosition ==
  /\ InitReduction(Wired({ << <<1, 2>>, <<2, 1>> >> }), RatedPowers(6), << >>, "connect")
  /\ order = "asc"
  /\ geometry = << >>
  /\ cache = NoCache
  /\ templates = << >>
  /\ \E f \in [PlacedPorts -> { << 0, 0 >>, << 5, 0 >>, << 5, 8 >>, << 12, 8 >>, << >> }] :
       position = [p \in ElemPorts |->
                     IF p \in PlacedPorts THEN f[p]
                     ELSE IF p \in { <<1, 2>>, <<2, 1>> } THEN << 0, 0 >>
                     ELSE << >>]

NextPosition == PositionConnections \/ PositionConnect

\* the ports connected by position
SpecPosition == InitPosition /\ [][NextPosition]_vars

(***************************************************************************)
(* Properties                                                              *)
(***************************************************************************)
Parents(e) == { parent(p) : p \in e }

\* the edges with exactly one endpoint on a component of S
ExternalEdges(E, S) == { e \in E : Cardinality(Parents(e) \cap S) = 1 /\ Cardinality(Parents(e)) = 2 }

ExternalNeighbours(E, S) == UNION { Parents(e) : e \in ExternalEdges(E, S) } \ S

\* the components removed from the graph by the merges so far
AbsorbedComponents == UNION { aggs[a].elements : a \in merged }

C2_NoDanglingPorts ==
  \A e \in gedges :
    /\ Cardinality(e) = 2
    /\ Cardinality(Parents(e)) = 2
    /\ Parents(e) \subseteq gnodes
    /\ Parents(e) \cap AbsorbedComponents = {}

C2_Witness ==
  /\ Cardinality(merged) >= 3
  /\ Cardinality(gedges) >= 3
  /\ \E e \in gedges : Parents(e) \subseteq AggIds

\* C3: a merge whose mapping lacks a port of a component of the match that
\* carries an external edge raises and leaves the graph as it was, and the
\* error ends Reduce.run: the statistics of the rule are never written.
C3_InconsistentMappingIsFatal ==
  last.ctor = "returned" =>
    LET inner == SubEdges(last.E, last.M)
        lacking == \E e \in last.E \ inner :
                     \E p \in e : parent(p) \in last.M /\ p \notin DOMAIN last.mapping
    IN lacking => /\ last.kind = "propagated"
                  /\ err = "MergeError"
                  /\ pc = "fatal"
                  /\ gnodes = last.N
                  /\ gedges = last.E
                  /\ statistics[last.rule] = -1

C3_Witness ==
  /\ last.kind = "propagated"
  /\ pc = "fatal"
  /\ ExternalEdges(last.E, last.M) # {}

\* C4: after every merge the graph is simple: no edge joins a component to
\* itself and no two edges join the same pair of components.
C4_GraphSimple ==
  last.kind = "merged" =>
    /\ \A e \in gedges : Cardinality(Parents(e)) = 2
    /\ \A e, f \in gedges : Parents(e) = Parents(f) => e = f

\* the position of Reduce.run in its two loops
Position ==
  IF pc = "done" THEN << Len(Aggregations) + 1, 0 >>
  ELSE IF pc = "rule" THEN << rule, 0 >>
  ELSE << rule, mi >>

Before(x, y) == x[1] < y[1] \/ (x[1] = y[1] /\ x[2] < y[2])

\* C5: when the constructor raises, the match is skipped without a merge and
\* without an error, Reduce.run moves on to the next match of the rule and to
\* the later rules, the guard of its next pass holds, and it returns with
\* the statistics of every rule written.
C5_ConstructorErrorSkipsMatch ==
  last.ctor = "raised" =>
    /\ last.kind = "skipped"
    /\ err = "none"
    /\ pc \in { "match", "rule", "done" }
    /\ last.agg \notin merged
    /\ gnodes = last.N
    /\ gedges = last.E
    /\ Before(<< last.rule, last.mi >>, Position)
    /\ (pc = "match" /\ rule = last.rule) => mi = last.mi + 1
    /\ pc # "done" => \/ pc = "rule"
                      \/ pc = "match" /\ mi > Len(matches)
                      \/ pc = "match" /\ mi <= Len(matches) /\ nAgg + 3 <= MaxAgg
    /\ pc = "done" => /\ \A r \in DOMAIN statistics : statistics[r] >= 0
                      /\ Len(seen) = Len(Aggregations)

\* a later match of the rule was merged after the first one was skipped
C5_Witness ==
  /\ last.kind = "merged"
  /\ last.mi = 2
  /\ \E a \in AggIds \ merged : /\ a < last.agg
                                /\ aggs[a].cls = aggs[last.agg].cls
                                /\ aggs[a].elements # {}
                                /\ aggs[a].originals = << >>

\* C6: connect raises, and changes no connection, exactly when one of the two
\* ports is connected to a port other than the partner or both ports belong
\* to the same component; otherwise it connects the two ports to each other
\* and changes no other port.
C6_ConnectRaisesIff ==
  last.kind = "connect" =>
    LET busy(x, y) == last.conn[x] # NoPort /\ last.conn[x] # y
        bad == \/ busy(last.p, last.q)
               \/ busy(last.q, last.p)
               \/ parent(last.p) = parent(last.q)
    IN IF bad
       THEN err = "ConnectivityError" /\ connection = last.conn
       ELSE /\ err = "none"
            /\ connection[last.p] = last.q
            /\ connection[last.q] = last.p
            /\ \A x \in ElemPorts \ { last.p, last.q } : connection[x] = last.conn[x]

C6_Witness ==
  /\ last.kind = "connect"
  /\ err = "ConnectivityError"
  /\ parent(last.p) # parent(last.q)
  /\ last.conn[last.p] = NoPort
  /\ last.conn[last.q] # NoPort

\* C7: after any sequence of connect and disconnect calls every port has at
\* most one connection, connections are symmetric, and no port is connected to
\* a port of its own component.
C7_ConnectionsSymmetric ==
  \A p \in ElemPorts :
    connection[p] # NoPort =>
      /\ connection[p] \in ElemPorts
      /\ connection[connection[p]] = p
      /\ parent(connection[p]) # parent(p)
      /\ \A q \in ElemPorts \ { p } : connection[q] # connection[p]

C7_Witness ==
  /\ last.kind = "disconnect"
  /\ last.conn[last.p] # NoPort
  /\ Cardinality({ p \in ElemPorts : connection[p] # NoPort }) >= 4

\* C8: disconnect raises nothing, leaves the port and its former partner
\* without a connection, changes no other port, and a second call changes
\* nothing.
C8_DisconnectIdempotent ==
  last.kind = "disconnect" =>
    LET other == last.conn[last.p]
    IN /\ err = "none"
       /\ connection[last.p] = NoPort
       /\ other # NoPort => connection[other] = NoPort
       /\ \A x \in ElemPorts \ { last.p, other } : connection[x] = last.conn[x]
       /\ DisconnectResult(connection, last.p) = connection

\* a disconnect of a port that had no connection, while other ports have one
C8_Witness ==
  /\ last.kind = "disconnect"
  /\ last.conn[last.p] = NoPort
  /\ \E x \in ElemPorts : connection[x] # NoPort /\ parent(x) = parent(last.p)

Members(a) ==
  (aggs[a].elements \cap Comps)
    \cup UNION { aggs[b].elements \cap Comps : b \in aggs[a].elements \cap AggIds }

\* the ports of the members that are connected to a component outside
BoundaryPorts(a) ==
  { p \in ElemPorts : /\ parent(p) \in Members(a)
                      /\ connection[p] # NoPort
                      /\ parent(connection[p]) \notin Members(a) }

Owners(a, p) == { k \in DOMAIN aggs[a].originals : p \in Range(aggs[a].originals[k]) }

\* C10: an aggregate that replaced a match owns one AggregationPort per
\* external component its boundary ports lead to: every boundary port is
\* owned by exactly one port, ports own boundary ports only, and two boundary
\* ports have the same owner exactly when they lead to the same component.
C10_OnePortPerEndpoint ==
  \A a \in merged :
    /\ \A p \in BoundaryPorts(a) : Cardinality(Owners(a, p)) = 1
    /\ \A k \in DOMAIN aggs[a].originals :
         /\ aggs[a].originals[k] # << >>
         /\ Range(aggs[a].originals[k]) \subseteq BoundaryPorts(a)
    /\ \A p, q \in BoundaryPorts(a) :
         (Owners(a, p) = Owners(a, q))
           <=> (parent(connection[p]) = parent(connection[q]))
    /\ Len(aggs[a].originals)
         = Cardinality({ parent(connection[p]) : p \in BoundaryPorts(a) })

\* the ports of a node of the graph: element.ports, or the AggregationPorts
NodePorts(n) ==
  IF n \in Comps THEN Range(ports[n])
  ELSE { << n, k >> : k \in DOMAIN aggs[n].originals }

\* the port p joins a node of the match M to a node outside of it
HasExternalEdge(E, M, p) == \E e \in E : p \in e /\ \E q \in e : parent(q) \notin M

\* C11: the replacement mapping of an aggregate has exactly the ports of the
\* components of the match as keys, a port maps to None exactly when it has no
\* connection to a component outside the match, and a port with such a
\* connection maps to the AggregationPort whose originals contain it.
C11_ReplacementMappingKeys ==
  last.ctor = "returned" =>
    LET keys == UNION { NodePorts(n) : n \in last.M }
    IN /\ DOMAIN last.mapping = keys
       /\ \A p \in keys :
            /\ (last.mapping[p] = NoPort) <=> ~HasExternalEdge(last.E, last.M, p)
            /\ HasExternalEdge(last.E, last.M, p) =>
                 LET t == last.mapping[p]
                 IN /\ parent(t) \in AggIds
                    /\ t[2] \in DOMAIN aggs[parent(t)].originals
                    /\ p \in Range(aggs[parent(t)].originals[t[2]])

\* find_matches of PipeStrand has just returned and the graph is still the
\* one it was called on
StrandMatchesFresh == pc = "match" /\ Aggregations[rule] = "PipeStrand" /\ mi = 1

\* a pipe-like component with at most two connections
InStrand(n) == NodeType(aggs, n) \in StrandTypes /\ Degree(gedges, n) <= 2

Row == { 2, 3, 13, 14, 15 }

\* the components of the row are connected in a row
RowConnected(E) ==
  { Parents(e) : e \in SubEdges(E, Row) } = { { 2, 3 }, { 3, 13 }, { 13, 14 }, { 14, 15 } }

\* C13: constructing a PipeStrand over two pipes, a distributor and two pipes
\* connected in a row raises, and no component of the row refers to an
\* aggregate afterwards.
C13_StrandOverDistributorRaises ==
  (last.kind = "forced" /\ last.M = Row /\ RowConnected(last.E)) =>
    /\ last.ctor = "raised"
    /\ err # "none"
    /\ \A n \in Row : aggregation[n] = NoAgg

RECURSIVE SumOver(_, _)
SumOver(S, f) ==
  IF S = {} THEN 0
  ELSE LET i == CHOOSE x \in S : TRUE IN f[i] + SumOver(S \ { i }, f)

\* the elements that have a length and a diameter
Qualifying == { i \in DOMAIN items : Truthy(items[i].length) /\ Truthy(items[i].diameter) }

\* C14: the length of a PipeStrand is the sum of the lengths of all its
\* members.
C14_LengthIsSum ==
  (result.cls = "PipeStrand" /\ \A i \in DOMAIN items : items[i].length # Missing) =>
    result.length = SumOver(DOMAIN items, [i \in DOMAIN items |-> items[i].length])

\* C15: _calc_avg of a PipeStrand raises nothing; its diameter times the sum
\* of the lengths equals the sum of length times diameter, both sums over the
\* members that have a length and a diameter; the diameter is 0 when no
\* member has both.
C15_WeightedDiameter ==
  result.cls = "PipeStrand" =>
    LET S == SumOver(Qualifying, [i \in DOMAIN items |-> items[i].length])
        SD == SumOver(Qualifying,
                      [i \in DOMAIN items |-> items[i].length * items[i].diameter])
    IN /\ ~result.raised
       /\ result.diameter.den # 0
       /\ result.diameter.num * S = SD * result.diameter.den
       /\ Qualifying = {} => result.diameter.num = 0

\* members with different diameters, and one without a diameter
C15_Witness ==
  /\ result.cls = "PipeStrand"
  /\ \E i, j \in Qualifying : items[i].diameter # items[j].diameter
  /\ \E i \in DOMAIN items : Truthy(items[i].length) /\ items[i].diameter = Missing

\* the pumps among the elements
PumpsOf(its) == { i \in DOMAIN its : its[i].ifc_type = "IfcPump" }

\* C16: the rated height of a ParallelPump is the smallest rated height of
\* its pumps.
C16_MinRatedHeight ==
  (result.cls = "ParallelPump" /\ ~result.raised) =>
    result.rated_height = Min({ items[i].rated_height : i \in PumpsOf(items) })

\* C17: the rated volume flow of a ParallelPump is the sum of the flows of its
\* pumps, and its rated power is rated_volume_flow x rated_height x g x rho of
\* the aggregate.
C17_PowerRecomputed ==
  (result.cls = "ParallelPump" /\ ~result.raised) =>
    /\ result.rated_volume_flow
         = SumOver(PumpsOf(items), [i \in DOMAIN items |-> items[i].rated_volume_flow])
    /\ result.rated_power * 100
         = result.rated_volume_flow * result.rated_height * G100 * Rho

OtherCriteriaPass(g) ==
  /\ g.n >= MinElements
  /\ 10 * g.nplane >= MinShare10 * g.nports
  /\ g.dx * g.dy >= MinArea
  /\ g.length > 0
  /\ MaxKpi100 * g.dx * g.dy > 100 * g.length * g.diameter
  /\ 100 * g.length * g.diameter > MinKpi100 * g.dx * g.dy

\* C21: find_matches of UnderfloorHeating never raises, whatever the size and
\* the geometry of the chains.
C21_FindMatchesNeverRaises ==
  result.cls = "UnderfloorHeating" => result.raised = "none"

\* C22: a chain that passes the other criteria is returned as a match exactly
\* when one of its spacings lies in the closed interval from 90 to 210 mm.
C22_SpacingClosedInterval ==
  (pc = "found" /\ Len(geometry) = 1 /\ OtherCriteriaPass(geometry[1])) =>
    LET xs == SpacingOf(geometry[1].dx, geometry[1].ny)
        ys == SpacingOf(geometry[1].dy, geometry[1].nx)
    IN (result.graphs # << >>) <=>
         \/ xs.bound /\ MinSpacing <= xs.value /\ xs.value <= MaxSpacing
         \/ ys.bound /\ MinSpacing <= ys.value /\ ys.value <= MaxSpacing

\* C28: an UnderfloorHeating constructed with the metadata find_matches
\* returned for its match has the heating_area, x_spacing and y_spacing of
\* that metadata, and the k-th metadata is that of the k-th match.
C28_MetadataExposed ==
  (pc = "constructed" /\ last.kind = "underfloor" /\ last.ctor = "returned") =>
    LET meta == result.metas[last.mi]
        attrs == aggs[last.agg].attrs
    IN /\ meta = CheckConditionsOf(geometry[result.graphs[last.mi]]).meta
       /\ attrs.heating_area = meta.heating_area
       /\ attrs.x_spacing = meta.x_spacing
       /\ attrs.y_spacing = meta.y_spacing

\* C23: once an attribute of an aggregate was read, the function it shares
\* with other attributes was called exactly once, and all attributes that
\* share the function have their values.
C23_ComputedTogetherOnce ==
  (pc = "attributes") =>
    \A i \in DOMAIN cache.reads :
      LET calc == CalcOf(cache.cls, cache.reads[i])
      IN /\ cache.calls[calc] = 1
         /\ \A b \in PropertyNames(cache.cls) :
              CalcOf(cache.cls, b) = calc => cache.values[b] # Missing

\* the matches of ParallelPump, as find_matches returned them
PumpMatchesFresh == pc = "match" /\ Aggregations[rule] = "ParallelPump" /\ mi = 1

\* the branches of the match M between the two components J: the connected
\* parts of M without J
Branches(M, J) == Components(SubEdges(gedges, M \ J), M \ J)

\* the match M is a set of at least two branches between the two components
\* J, each with a pump and joined to both
ParallelBetween(M, J) ==
  /\ Cardinality(Branches(M, J)) >= 2
  /\ \A B \in Branches(M, J) :
       /\ \E n \in B : NodeType(aggs, n) = "IfcPump"
       /\ \A j \in J : \E n \in B : j \in Neighbours(gedges, n)

C27_MatchesDisjoint ==
  /\ pc = "match" =>
       \A i \in DOMAIN matches, j \in DOMAIN matches :
         i # j => matches[i].nodes \cap matches[j].nodes = {}
  /\ last.kind \in { "merged", "skipped", "propagated" } => last.M \subseteq last.N

\* the triples the templates t hold
Triples(t) ==
  UNION { UNION { { << k1, k2, k3 >> : k3 \in DOMAIN t[k1][k2] } : k2 \in DOMAIN t[k1] } :
            k1 \in DOMAIN t }

\* the ifc type a set call names: the name, or the ifc_type of the class
NamedType(element) ==
  IF element.kind = "name" THEN element.name ELSE ClassOf(element.class).types[1]

C26_DiscardedMatchLeavesNoTrace ==
  (last.kind = "skipped" /\ last.ctor = "raised") =>
    /\ gnodes = last.N
    /\ gedges = last.E
    /\ \A n \in last.M : aggregation[n] # last.agg

\* C29: a merge of a match of k components removes k nodes and adds exactly
\* one, a skipped match leaves the nodes as they are, and when a rule is
\* finished its statistic is the number of its aggregates that were merged.
C29_NodeCount ==
  /\ last.kind = "merged" =>
       /\ last.M \cap gnodes = {}
       /\ Cardinality(gnodes \ last.N) = 1
       /\ Cardinality(gnodes) = Cardinality(last.N) - (Cardinality(last.M) - 1)
  /\ last.kind = "skipped" => gnodes = last.N
  /\ \A r \in DOMAIN statistics :
       statistics[r] >= 0 =>
         statistics[r] = Cardinality({ a \in merged : aggs[a].cls = Aggregations[r] })

\* the ports of the pairs connections_by_position returned
PairPorts(i) == { result.pairs[i][1], result.pairs[i][2] }

\* C30: no port is in two of the pairs connections_by_position returns, no
\* pair joins two ports of one component, and connecting the pairs in order
\* raises nothing.
C30_PositionPairsDisjoint ==
  (result.cls = "ConnectElements") =>
    /\ \A i \in DOMAIN result.pairs, j \in DOMAIN result.pairs :
         i # j => PairPorts(i) \cap PairPorts(j) = {}
    /\ \A i \in DOMAIN result.pairs :
         parent(result.pairs[i][1]) # parent(result.pairs[i][2])
    /\ pc # "failed" /\ err = "none"

\* a port with two open ports of other components within eps, one of them
\* closer: two pairs returned and both connected
C30_Witness ==
  /\ result.cls = "ConnectElements"
  /\ Len(result.pairs) = 2 /\ result.todo = << >>
  /\ \E p \in PlacedPorts, q \in PlacedPorts, r \in PlacedPorts :
       /\ Cardinality({ parent(p), parent(q), parent(r) }) = 3
       /\ AbsDelta(position, p, q) \in 0 .. (Eps - 1)
       /\ AbsDelta(position, p, r) \in 0 .. (Eps - 1)
       /\ connection[p] = q

====
